---- MODULE Spec2Model ----
(***************************************************************************)
(* Model of four components of Agent Saathi:                               *)
(*  - the in-process message bus (blogger_agent/utils/a2a_protocol.py):    *)
(*    the A2AMessage envelope, its to_dict/from_dict conversions, and the  *)
(*    A2ACommunicator with its agent registry, per-pair conversation       *)
(*    history, send log, delivery and broadcast;                           *)
(*  - the per-user memory bank and its compaction                          *)
(*    (blogger_agent/agents/emotional_support_agent.py);                   *)
(*  - the thread-per-task executor (blogger_agent/utils/parallel_agents.py)*)
(*  - the pausable background operation                                    *)
(*    (blogger_agent/utils/long_running.py).                               *)
(* Each component has its own specification over its own variables; the    *)
(* variables of the other components stay as Init leaves them.             *)
(*                                                                         *)
(* Python values are modelled as follows.  A str is a TLA+ string, so that *)
(* the f-string keys and ids are built by concatenation as the code builds *)
(* them.  A dict with string keys is a function from its keys (a record;   *)
(* the empty dict is <<>>).  A value whose type the code does not fix (the *)
(* "task" entry of a payload) is tagged with its Python type.  None as an  *)
(* Optional[str] is the sentinel PyNoneStr.  datetime.now() is a reading   *)
(* of a wall clock counted in ticks: two consecutive readings may be equal *)
(* (the clock has a finite resolution) and never decrease.                 *)
(***************************************************************************)
EXTENDS Integers, Sequences, FiniteSets, TLC

VARIABLES
    clock,                 \* the last reading of datetime.now(), in ticks
    agent_registry,        \* A2ACommunicator.agent_registry, in insertion order
    conversation_history,  \* A2ACommunicator.conversation_history: key -> list of dicts
    message_queue,         \* A2ACommunicator.message_queue: list of A2AMessage
    calls,                 \* the agent methods invoked by the last operation, in order
    returned,              \* the last operation and the value it returned
    roundtrip,             \* the last from_dict(to_dict(e)): the envelope and its copy
    memories,              \* EmotionalMemoryBank.memories: user_id -> list of records
    stored,                \* every record ever appended for a user, in append order
    detached,              \* the lists that memories held once and that a thread in
                           \* store_emotional_pattern or compact_memory still refers to
    agents,                \* ParallelAgentExecutor.agents, in insertion order
    results,               \* the results dict of the execute_parallel call in progress
    threads,               \* the threads list of that call: each thread's position
    runner,                \* the position of the thread that called execute_parallel
    status,                \* LongRunningOperation.status
    should_stop,           \* LongRunningOperation.should_stop
    pause_event,           \* LongRunningOperation.pause_event: TRUE when set
    progress,              \* LongRunningOperation.progress
    result,                \* LongRunningOperation.result
    error,                 \* LongRunningOperation.error
    workers,               \* the _wrapper threads started so far: each one's position
    caller,                \* the method the controlling thread is inside, and where
    in_flight              \* calls in progress on the bus, the memory bank or the
                           \* orchestrator: each one's arguments, locals and position

busVars       == <<agent_registry, conversation_history, message_queue, calls, roundtrip>>
memoryVars    == <<memories, stored, detached>>
executorVars  == <<agents, results, threads, runner>>
operationVars == <<status, should_stop, pause_event, progress, result, error,
                   workers, caller>>

vars == <<clock, returned, busVars, memoryVars, executorVars, operationVars, in_flight>>

----------------------------------------------------------------------------
(* Bounds of the exploration *)

MaxSends == 2        \* envelopes sent in one behaviour
MaxClock == 1        \* largest clock reading
TicksPerSecond == 2  \* clock ticks in one second (10^6 microseconds, scaled down)

----------------------------------------------------------------------------
(* Python values *)

PyNoneStr == "<None>"

PyNone == [type |-> "NoneType"]

PyDict(d) == [type |-> "dict", value |-> d]

PyList(l) == [type |-> "list", value |-> l]

\* dict.get(key, default)
Get(d, key, default) == IF key \in DOMAIN d THEN d[key] ELSE default

\* `x or y` on an Optional[str]: None and "" are falsy
Falsy(s) == s \in {PyNoneStr, ""}

\* datetime.now().timestamp() formatted by the f-string: one decimal text per instant
TimestampText(t) == ToString(t)

\* datetime.now().isoformat(): seconds, then the sub-second part,
\* which isoformat leaves out when it is zero
IsoFormat(t) ==
    IF t % TicksPerSecond = 0
    THEN << t \div TicksPerSecond >>
    ELSE << t \div TicksPerSecond, t % TicksPerSecond >>

\* Python's < on two isoformat strings: lexicographic, a proper prefix is smaller
RECURSIVE StrLess(_, _)
StrLess(s, t) ==
    IF t = <<>> THEN FALSE
    ELSE IF s = <<>> THEN TRUE
    ELSE IF Head(s) # Head(t) THEN Head(s) < Head(t)
    ELSE StrLess(Tail(s), Tail(t))

----------------------------------------------------------------------------
(* OperationStatus: the enumeration members and their values *)

OperationStatus ==
    [PENDING   |-> "pending",
     RUNNING   |-> "running",
     PAUSED    |-> "paused",
     COMPLETED |-> "completed",
     FAILED    |-> "failed"]

----------------------------------------------------------------------------
(* MessageType: the enumeration members and their values *)

MessageType ==
    [TASK_REQUEST |-> "task_request",
     TASK_RESULT  |-> "task_result",
     DATA_SHARING |-> "data_sharing",
     COORDINATION |-> "coordination",
     ERROR        |-> "error"]

\* MessageType(value): the member that has this value
MessageTypeOf(value) == CHOOSE member \in DOMAIN MessageType : MessageType[member] = value

----------------------------------------------------------------------------
(* A2AMessage *)

Metadata == [version |-> "1.0", protocol |-> "A2A"]

\* A2AMessage.__init__; now1 and now2 are the two readings of datetime.now()
A2AMessage(message_type, from_agent, to_agent, content, message_id, now1, now2) ==
    [message_id   |-> IF Falsy(message_id)
                      THEN "msg_" \o TimestampText(now1)
                      ELSE message_id,
     message_type |-> message_type,
     from_agent   |-> from_agent,
     to_agent     |-> to_agent,
     content      |-> content,
     timestamp    |-> IsoFormat(now2),
     metadata     |-> Metadata]

\* A2AMessage.to_dict
ToDict(message) ==
    [message_id   |-> message.message_id,
     message_type |-> MessageType[message.message_type],
     from_agent   |-> message.from_agent,
     to_agent     |-> message.to_agent,
     content      |-> message.content,
     timestamp    |-> message.timestamp,
     metadata     |-> message.metadata]

\* A2AMessage.from_dict; the constructor it calls reads the clock again
FromDict(data, now1, now2) ==
    A2AMessage(MessageTypeOf(data.message_type), data.from_agent, data.to_agent,
               data.content, data.message_id, now1, now2)

----------------------------------------------------------------------------
(* Agent handles.  register_agent accepts any object; the bus only probes  *)
(* it with hasattr and calls the method that matches the task.             *)

EmotionalSupportAgent == [methods |-> {"process_emotional_journal"}, raises |-> FALSE]

StudyPlanningAgent == [methods |-> {"create_study_plan"}, raises |-> FALSE]

\* an object whose task methods raise
FailingAgent ==
    [methods |-> {"process_emotional_journal", "create_study_plan"}, raises |-> TRUE]

HasAttr(agent, method) == method \in agent.methods

\* what an agent method hands back: opaque to the bus
AgentResult(method, argument) == [produced_by |-> method, input |-> argument]

----------------------------------------------------------------------------
(* The registry is a Python dict: a key keeps the position of its first    *)
(* insertion, and assigning to a present key replaces its value in place.  *)

RegisteredNames(registry) == { registry[i].name : i \in DOMAIN registry }

\* name in self.agent_registry
IsRegistered(registry, name) == name \in RegisteredNames(registry)

\* self.agent_registry[name]
Lookup(registry, name) ==
    LET i == CHOOSE j \in DOMAIN registry : registry[j].name = name
    IN  registry[i].agent

\* self.agent_registry[agent_name] = agent_instance
RegistryAssign(registry, agent_name, agent_instance) ==
    IF IsRegistered(registry, agent_name)
    THEN [i \in DOMAIN registry |->
            IF registry[i].name = agent_name
            THEN [name |-> agent_name, agent |-> agent_instance]
            ELSE registry[i]]
    ELSE Append(registry, [name |-> agent_name, agent |-> agent_instance])

----------------------------------------------------------------------------
(* Outcome of a call: a returned value or a raised exception, with the     *)
(* agent methods invoked on the way.                                       *)

Return(value, invoked) == [raised |-> FALSE, value |-> value, invoked |-> invoked]

Raise(e, invoked) ==
    [raised |-> TRUE, value |-> [exception |-> e], invoked |-> invoked]

NotIterable == "argument of type 'NoneType' is not iterable"

AgentError == "agent method failed"

\* one invocation of an agent method, with what the bus held by then: the length of
\* the send log, and whether the envelope was the last entry of the log and of its history
Invocation(message, method, bus) ==
    [agent      |-> message.to_agent,
     method     |-> method,
     message_id |-> message.message_id,
     position   |-> Len(bus.message_queue),
     recorded   |->
         LET queue   == bus.message_queue
             history == Get(bus.conversation_history,
                            message.from_agent \o "_" \o message.to_agent, <<>>)
         IN  /\ queue # <<>>
             /\ queue[Len(queue)] = message
             /\ history # <<>>
             /\ history[Len(history)] = ToDict(message)]

\* HandleTaskRequest trying the study-plan shape before the journal shape
HandleTaskRequest_PlanFirst(agent, message, bus) ==
    LET task_data == Get(message.content, "task", PyDict(<<>>))
        journal   == Invocation(message, "process_emotional_journal", bus)
        plan      == Invocation(message, "create_study_plan", bus)
    IN
    IF HasAttr(agent, "create_study_plan") /\ task_data.type # "dict"
    THEN Raise(NotIterable, <<>>)
    ELSE IF HasAttr(agent, "create_study_plan")
            /\ "subjects" \in DOMAIN task_data.value
    THEN IF agent.raises
         THEN Raise(AgentError, <<plan>>)
         ELSE Return([status     |-> "task_completed",
                      result     |-> AgentResult("create_study_plan",
                                                 task_data.value["subjects"]),
                      agent_type |-> "study_planning"], <<plan>>)
    ELSE IF HasAttr(agent, "process_emotional_journal") /\ task_data.type # "dict"
    THEN Raise(NotIterable, <<>>)
    ELSE IF HasAttr(agent, "process_emotional_journal")
            /\ "journal_entry" \in DOMAIN task_data.value
    THEN IF agent.raises
         THEN Raise(AgentError, <<journal>>)
         ELSE Return([status     |-> "task_completed",
                      result     |-> AgentResult("process_emotional_journal",
                                                 task_data.value["journal_entry"]),
                      agent_type |-> "emotional_support"], <<journal>>)
    ELSE Return([status |-> "task_rejected", reason |-> "unsupported_task_type"], <<>>)

\* A2ACommunicator._handle_task_request
HandleTaskRequest(agent, message, bus) ==
    LET task_data == Get(message.content, "task", PyDict(<<>>))
        journal   == Invocation(message, "process_emotional_journal", bus)
        plan      == Invocation(message, "create_study_plan", bus)
    IN
    IF HasAttr(agent, "process_emotional_journal") /\ task_data.type # "dict"
    THEN Raise(NotIterable, <<>>)
    ELSE IF HasAttr(agent, "process_emotional_journal")
            /\ "journal_entry" \in DOMAIN task_data.value
    THEN IF agent.raises
         THEN Raise(AgentError, <<journal>>)
         ELSE Return([status     |-> "task_completed",
                      result     |-> AgentResult("process_emotional_journal",
                                                 task_data.value["journal_entry"]),
                      agent_type |-> "emotional_support"], <<journal>>)
    ELSE IF HasAttr(agent, "create_study_plan") /\ task_data.type # "dict"
    THEN Raise(NotIterable, <<>>)
    ELSE IF HasAttr(agent, "create_study_plan")
            /\ "subjects" \in DOMAIN task_data.value
    THEN IF agent.raises
         THEN Raise(AgentError, <<plan>>)
         ELSE Return([status     |-> "task_completed",
                      result     |-> AgentResult("create_study_plan",
                                                 task_data.value["subjects"]),
                      agent_type |-> "study_planning"], <<plan>>)
    ELSE Return([status |-> "task_rejected", reason |-> "unsupported_task_type"], <<>>)

\* HandleDataSharing counting the entries of the payload instead of the shared data
HandleDataSharing_CountsPayload(agent, message) ==
    Return([status     |-> "data_received",
            data_items |-> Cardinality(DOMAIN message.content),
            agent      |-> message.to_agent], <<>>)

\* A2ACommunicator._handle_data_sharing
HandleDataSharing(agent, message) ==
    LET shared_data == Get(message.content, "data", PyDict(<<>>))
    IN  IF shared_data.type # "dict"
        THEN Raise("object of type 'NoneType' has no len()", <<>>)
        ELSE Return([status     |-> "data_received",
                     data_items |-> Cardinality(DOMAIN shared_data.value),
                     agent      |-> message.to_agent], <<>>)

\* the body of the try block of _deliver_message
Dispatch(target_agent, message, bus) ==
    IF message.message_type = "TASK_REQUEST"
    THEN HandleTaskRequest(target_agent, message, bus)
    ELSE IF message.message_type = "DATA_SHARING"
    THEN HandleDataSharing(target_agent, message)
    ELSE Return([status |-> "delivered",
                 message_type |-> MessageType[message.message_type]], <<>>)

\* DeliverMessage without its except clause
DeliverMessage_NoExcept(message, bus) ==
    Dispatch(Lookup(bus.agent_registry, message.to_agent), message, bus)

\* A2ACommunicator._deliver_message: every exception becomes delivery_failed
DeliverMessage(message, bus) ==
    LET outcome == Dispatch(Lookup(bus.agent_registry, message.to_agent), message, bus)
    IN  IF outcome.raised
        THEN Return([status |-> "delivery_failed", error |-> outcome.value.exception],
                    outcome.invoked)
        ELSE outcome

\* conv_key = f"{from_agent}_{to_agent}"
ConvKey(from_agent, to_agent) == from_agent \o "_" \o to_agent

\* Record starting the pair's history afresh at every send
Record_Replacing(bus, message) ==
    LET conv_key == ConvKey(message.from_agent, message.to_agent)
    IN  [bus EXCEPT
           !.conversation_history =
               (conv_key :> <<ToDict(message)>>) @@ bus.conversation_history,
           !.message_queue = Append(bus.message_queue, message)]

\* lines 79-86 of send_message: record the envelope in the history and the send log
Record(bus, message) ==
    LET conv_key == ConvKey(message.from_agent, message.to_agent)
        history  == Get(bus.conversation_history, conv_key, <<>>)
    IN  [bus EXCEPT
           !.conversation_history =
               (conv_key :> Append(history, ToDict(message))) @@ bus.conversation_history,
           !.message_queue = Append(bus.message_queue, message)]

\* SendMessageOp delivering before it records the envelope
SendMessageOp_DeliverFirst(bus, message) ==
    LET inner == IF IsRegistered(bus.agent_registry, message.to_agent)
                 THEN DeliverMessage(message, bus)
                 ELSE Return([status     |-> "queued",
                              message_id |-> message.message_id,
                              reason     |-> "agent_not_registered"], <<>>)
    IN  [bus |-> Record(bus, message), outcome |-> inner]

\* A2ACommunicator.send_message: the bus afterwards and the outcome of the call
SendMessageOp(bus, message) ==
    LET recorded == Record(bus, message)
        inner    == IF IsRegistered(recorded.agent_registry, message.to_agent)
                    THEN DeliverMessage(message, recorded)
                    ELSE Return([status     |-> "queued",
                                 message_id |-> message.message_id,
                                 reason     |-> "agent_not_registered"], <<>>)
    IN  [bus     |-> recorded,
         \* the outer except clause of send_message
         outcome |-> IF inner.raised
                     THEN Return([status |-> "error", error |-> inner.value.exception],
                                 inner.invoked)
                     ELSE inner]

\* the key function of sorted(history, key=lambda x: x["timestamp"])
SortKey(entry) == entry.timestamp

\* sorted(): stable, ascending by key
RECURSIVE Sorted(_)
Sorted(list) ==
    IF list = <<>> THEN <<>>
    ELSE LET rest   == Sorted(SubSeq(list, 1, Len(list) - 1))
             x      == list[Len(list)]
             \* x goes after every entry whose key is not greater than its own
             before == { i \in DOMAIN rest : ~ StrLess(SortKey(x), SortKey(rest[i])) }
             k      == IF before = {} THEN 0
                       ELSE CHOOSE i \in before : \A j \in before : j <= i
         IN  SubSeq(rest, 1, k) \o <<x>> \o SubSeq(rest, k + 1, Len(rest))

\* A2ACommunicator.get_conversation_history
GetConversationHistory(history, agent1, agent2) ==
    LET key1 == ConvKey(agent1, agent2)
        key2 == ConvKey(agent2, agent1)
    IN  Sorted(Get(history, key1, <<>>) \o Get(history, key2, <<>>))

----------------------------------------------------------------------------
(* The callers of the bus: the names they use, the agents they register    *)
(* and the payloads they send.                                             *)

Names == {"study", "study_group", "group_study"}

\* the agents registered, as register_agent(name, agent) calls
Registrations ==
    { <<"study", StudyPlanningAgent>>,
      <<"study", FailingAgent>>,
      <<"study_group", EmotionalSupportAgent>> }

JournalTask == [task |-> PyDict([journal_entry |-> "stressed about exams"])]

SubjectsTask == [task |-> PyDict([subjects |-> "math"])]

OtherTask == [task |-> PyDict([topic |-> "weather"])]

NoneTask == [task |-> PyNone]

SharedData == [data |-> PyDict([emotional_state |-> "anxious", mood_score |-> 4])]

EmptyContent == <<>>

Envelope(message_type, from_agent, to_agent, content) ==
    [message_type |-> message_type, from_agent |-> from_agent,
     to_agent |-> to_agent, content |-> content]

\* the arguments of the A2AMessage constructions that are passed to send_message
Envelopes ==
    { Envelope("TASK_REQUEST", "study", "study_group", JournalTask),
      Envelope("TASK_REQUEST", "study", "study_group", NoneTask),
      Envelope("TASK_REQUEST", "study_group", "study", SubjectsTask),
      Envelope("TASK_REQUEST", "study_group", "study", OtherTask),
      Envelope("DATA_SHARING", "study_group", "study", SharedData),
      Envelope("COORDINATION", "study", "group_study", EmptyContent),
      Envelope("COORDINATION", "study", "study", EmptyContent) }

\* the senders of the broadcasts: one that gets registered, one that never is
BroadcastSenders == {"study", "group_study"}

\* message type and content of the broadcasts
Broadcasts == { <<"COORDINATION", EmptyContent>>, <<"TASK_REQUEST", JournalTask>> }

\* datetime.now(): the clock may have advanced by one tick since the last reading
Readings(last) == { t \in {last, last + 1} : t <= MaxClock }

----------------------------------------------------------------------------
(* The communicator as one value, and the state after A2ACommunicator() *)

Bus == [agent_registry       |-> agent_registry,
        conversation_history |-> conversation_history,
        message_queue        |-> message_queue]

NoRoundTrip == [done |-> FALSE]

Init ==
    /\ clock = 0
    /\ agent_registry = <<>>
    /\ conversation_history = <<>>
    /\ message_queue = <<>>
    /\ calls = <<>>
    /\ returned = [op |-> "__init__"]
    /\ roundtrip = NoRoundTrip
    /\ memories = <<>>
    /\ stored = <<>>
    /\ detached = <<>>
    /\ agents = <<>>
    /\ results = <<>>
    /\ threads = <<>>
    /\ runner = [at |-> "idle"]
    /\ status = OperationStatus.PENDING
    /\ should_stop = FALSE
    /\ pause_event = FALSE
    /\ progress = 0
    /\ result = PyNoneStr
    /\ error = PyNoneStr
    /\ workers = <<>>
    /\ caller = [at |-> "idle"]
    /\ in_flight = <<>>

\* RegisterAgent handing the oldest recorded envelope addressed to the agent over to it
RegisterAgent_DeliversQueued(agent_name, agent_instance) ==
    LET registry == RegistryAssign(agent_registry, agent_name, agent_instance)
        waiting  == { i \in DOMAIN message_queue : message_queue[i].to_agent = agent_name }
        oldest   == CHOOSE i \in waiting : \A j \in waiting : i <= j
    IN  /\ agent_registry' = registry
        /\ calls' = IF waiting = {} THEN <<>>
                    ELSE DeliverMessage(message_queue[oldest],
                                        [Bus EXCEPT !.agent_registry = registry]).invoked
        /\ returned' = [op |-> "register_agent"]
        /\ UNCHANGED <<clock, conversation_history, message_queue, roundtrip>>
        /\ UNCHANGED <<memoryVars, executorVars, operationVars, in_flight>>

\* A2ACommunicator.register_agent
RegisterAgent(agent_name, agent_instance) ==
    /\ agent_registry' = RegistryAssign(agent_registry, agent_name, agent_instance)
    /\ calls' = <<>>
    /\ returned' = [op |-> "register_agent"]
    /\ UNCHANGED <<clock, conversation_history, message_queue, roundtrip>>
    /\ UNCHANGED <<memoryVars, executorVars, operationVars, in_flight>>

\* a caller constructs an envelope and passes it to send_message
SendMessage(message_type, from_agent, to_agent, content, now1, now2) ==
    LET message == A2AMessage(message_type, from_agent, to_agent, content,
                              PyNoneStr, now1, now2)
        sent    == SendMessageOp(Bus, message)
    IN  /\ Len(message_queue) < MaxSends
        /\ clock' = now2
        /\ conversation_history' = sent.bus.conversation_history
        /\ message_queue' = sent.bus.message_queue
        /\ calls' = sent.outcome.invoked
        /\ returned' = [op |-> "send_message", message |-> message,
                        raised |-> sent.outcome.raised,
                        value |-> sent.outcome.value]
        /\ UNCHANGED <<agent_registry, roundtrip>>
        /\ UNCHANGED <<memoryVars, executorVars, operationVars, in_flight>>

\* the readings made by n consecutive calls of datetime.now() after the reading `last`
RECURSIVE ReadingSequences(_, _)
ReadingSequences(last, n) ==
    IF n = 0 THEN { <<>> }
    ELSE UNION { { <<t>> \o rest : rest \in ReadingSequences(t, n - 1) } :
                 t \in Readings(last) }

\* BroadcastLoop stopping one registry entry early
RECURSIVE BroadcastLoop_StopsEarly(_, _, _, _, _, _)
BroadcastLoop_StopsEarly(i, acc, from_agent, message_type, content, readings) ==
    IF i >= Len(acc.bus.agent_registry) THEN acc
    ELSE LET agent_name == acc.bus.agent_registry[i].name
         IN  IF agent_name = from_agent
             THEN BroadcastLoop_StopsEarly(i + 1, acc, from_agent, message_type,
                                           content, readings)
             ELSE LET k       == 2 * Len(acc.envelopes)
                      message == A2AMessage(message_type, from_agent, agent_name, content,
                                            PyNoneStr, readings[k + 1], readings[k + 2])
                      sent    == SendMessageOp(acc.bus, message)
                  IN  BroadcastLoop_StopsEarly(i + 1,
                          [bus       |-> sent.bus,
                           results   |-> (agent_name :> sent.outcome.value) @@ acc.results,
                           invoked   |-> acc.invoked \o sent.outcome.invoked,
                           envelopes |-> Append(acc.envelopes, message)],
                          from_agent, message_type, content, readings)

\* the loop of broadcast_message from registry position i on; acc carries the bus,
\* the results collected so far and the agent methods invoked so far
RECURSIVE BroadcastLoop(_, _, _, _, _, _)
BroadcastLoop(i, acc, from_agent, message_type, content, readings) ==
    IF i > Len(acc.bus.agent_registry) THEN acc
    ELSE LET agent_name == acc.bus.agent_registry[i].name
         IN  IF agent_name = from_agent
             THEN BroadcastLoop(i + 1, acc, from_agent, message_type, content, readings)
             ELSE LET k       == 2 * Len(acc.envelopes)
                      message == A2AMessage(message_type, from_agent, agent_name, content,
                                            PyNoneStr, readings[k + 1], readings[k + 2])
                      sent    == SendMessageOp(acc.bus, message)
                  IN  BroadcastLoop(i + 1,
                          [bus       |-> sent.bus,
                           results   |-> (agent_name :> sent.outcome.value) @@ acc.results,
                           invoked   |-> acc.invoked \o sent.outcome.invoked,
                           envelopes |-> Append(acc.envelopes, message)],
                          from_agent, message_type, content, readings)

\* A2ACommunicator.broadcast_message
BroadcastMessageOp(bus, from_agent, message_type, content, readings) ==
    BroadcastLoop(1, [bus |-> bus, results |-> <<>>, invoked |-> <<>>, envelopes |-> <<>>],
                  from_agent, message_type, content, readings)

\* the registered agents a broadcast of from_agent constructs an envelope for
Recipients(registry, from_agent) == RegisteredNames(registry) \ {from_agent}

BroadcastMessage(from_agent, message_type, content, readings) ==
    LET done == BroadcastMessageOp(Bus, from_agent, message_type, content, readings)
    IN  /\ Len(message_queue) + Cardinality(Recipients(agent_registry, from_agent))
             <= MaxSends
        /\ clock' = IF readings = <<>> THEN clock ELSE readings[Len(readings)]
        /\ conversation_history' = done.bus.conversation_history
        /\ message_queue' = done.bus.message_queue
        /\ calls' = done.invoked
        /\ returned' = [op |-> "broadcast_message", from_agent |-> from_agent,
                        envelopes |-> done.envelopes, value |-> done.results]
        /\ UNCHANGED <<agent_registry, roundtrip>>
        /\ UNCHANGED <<memoryVars, executorVars, operationVars, in_flight>>

Next ==
    \/ \E registration \in Registrations :
           RegisterAgent(registration[1], registration[2])
    \/ \E e \in Envelopes, readings \in ReadingSequences(clock, 2) :
           SendMessage(e.message_type, e.from_agent, e.to_agent, e.content,
                       readings[1], readings[2])
    \/ \E payload \in Broadcasts, from_agent \in BroadcastSenders :
         \E readings \in ReadingSequences(clock,
                           2 * Cardinality(Recipients(agent_registry, from_agent))) :
           BroadcastMessage(from_agent, payload[1], payload[2], readings)

Spec == Init /\ [][Next]_vars

----------------------------------------------------------------------------
(* The envelope on its own: construction, to_dict and from_dict *)

EnvelopeArguments ==
    { Envelope(message_type, from_agent, to_agent, content) :
        message_type \in DOMAIN MessageType,
        from_agent \in {"study"}, to_agent \in Names,
        content \in {EmptyContent, JournalTask, SharedData} }

\* the message_id argument of a construction: left out, empty, or given
MessageIds == {PyNoneStr, "", "request-1"}

\* e = A2AMessage(...) followed by A2AMessage.from_dict(e.to_dict())
RoundTrip(e, message_id, readings) ==
    LET original == A2AMessage(e.message_type, e.from_agent, e.to_agent, e.content,
                               message_id, readings[1], readings[2])
        copy     == FromDict(ToDict(original), readings[3], readings[4])
    IN  /\ roundtrip' = [done |-> TRUE, original |-> original, copy |-> copy]
        /\ clock' = readings[4]
        /\ UNCHANGED <<agent_registry, conversation_history, message_queue,
                       calls, returned>>
        /\ UNCHANGED <<memoryVars, executorVars, operationVars, in_flight>>

NextEnvelope ==
    \E e \in EnvelopeArguments, message_id \in MessageIds,
       readings \in ReadingSequences(clock, 4) :
        RoundTrip(e, message_id, readings)

SpecEnvelope == Init /\ [][NextEnvelope]_vars

----------------------------------------------------------------------------
(* Properties of send_message *)

\* C1: every send_message call, whatever its outcome, appends exactly one entry to the
\* history of its (from, to) key and exactly one entry to the send log, leaves every
\* other history alone, and has made both appends by the time an agent method runs;
\* a broadcast does so once for each envelope it sends.
C1_SendRecordsExactlyOnce ==
    [][ /\ returned'.op = "send_message" =>
            LET message  == returned'.message
                conv_key == ConvKey(message.from_agent, message.to_agent)
            IN  /\ message_queue' = Append(message_queue, message)
                /\ Get(conversation_history', conv_key, <<>>) =
                       Append(Get(conversation_history, conv_key, <<>>), ToDict(message))
                /\ \A key \in DOMAIN conversation_history' \ {conv_key} :
                       /\ key \in DOMAIN conversation_history
                       /\ conversation_history'[key] = conversation_history[key]
                /\ \A i \in DOMAIN calls' : calls'[i].recorded
        /\ returned'.op = "broadcast_message" =>
            LET envelopes == returned'.envelopes
            IN  /\ message_queue' = message_queue \o envelopes
                /\ \A key \in DOMAIN conversation_history' :
                       Len(conversation_history'[key]) =
                           Len(Get(conversation_history, key, <<>>))
                           + Cardinality({ i \in DOMAIN envelopes :
                                 ConvKey(envelopes[i].from_agent,
                                         envelopes[i].to_agent) = key })
                /\ \A i \in DOMAIN calls' : calls'[i].recorded
      ]_vars

\* a send whose agent method ran and raised, after a send to an unregistered target
C1_Witness ==
    /\ returned.op = "send_message"
    /\ Len(message_queue) = 2
    /\ calls # <<>>
    /\ returned.value.status = "delivery_failed"
    /\ ~ IsRegistered(agent_registry, message_queue[1].to_agent)

\* C2: send_message never raises: when the handler of the registered target raises, the
\* call returns status delivery_failed with the error message, and the envelope is the
\* last entry of the send log and of its history.
C2_HandlerErrorBecomesDeliveryFailed ==
    returned.op = "send_message" =>
        LET message == returned.message
            history == Get(conversation_history,
                           ConvKey(message.from_agent, message.to_agent), <<>>)
        IN  /\ ~ returned.raised
            /\ ( /\ IsRegistered(agent_registry, message.to_agent)
                 /\ Dispatch(Lookup(agent_registry, message.to_agent), message, Bus).raised )
               => /\ returned.value.status = "delivery_failed"
                  /\ returned.value.error \in {AgentError, NotIterable}
                  /\ DOMAIN returned.value = {"status", "error"}
                  /\ message_queue # <<>>
                  /\ message_queue[Len(message_queue)] = message
                  /\ history # <<>>
                  /\ history[Len(history)] = ToDict(message)

\* the create_study_plan method of the target raised
C2_Witness ==
    /\ returned.op = "send_message"
    /\ Len(calls) = 1
    /\ calls[1].method = "create_study_plan"
    /\ returned.value = [status |-> "delivery_failed", error |-> AgentError]

\* C3: a send to an unregistered target returns queued / agent_not_registered, and no
\* later step hands a recorded envelope to an agent: the agent methods a step invokes
\* are all for envelopes that this very step appended to the send log.
C3_QueuedIsTerminal ==
    /\ [] ( ( /\ returned.op = "send_message"
              /\ ~ IsRegistered(agent_registry, returned.message.to_agent) )
            => /\ returned.value = [status     |-> "queued",
                                    message_id |-> returned.message.message_id,
                                    reason     |-> "agent_not_registered"]
               /\ calls = <<>> )
    /\ [][ \A i \in DOMAIN calls' :
               /\ calls'[i].position \notin DOMAIN message_queue
               /\ calls'[i].position \in DOMAIN message_queue' ]_vars

\* an agent was registered under the target of a task request sent before any registration
C3_Witness ==
    /\ returned.op = "register_agent"
    /\ Len(agent_registry) = 1
    /\ calls = <<>>
    /\ \E i \in DOMAIN message_queue :
           /\ message_queue[i].to_agent = agent_registry[1].name
           /\ message_queue[i].message_type = "TASK_REQUEST"
           /\ message_queue[i].content = JournalTask

\* C4 as stated: a send to a registered target whose handler does not raise returns
\* status delivered.
C4_StatusIsDelivered ==
    ( /\ returned.op = "send_message"
      /\ IsRegistered(agent_registry, returned.message.to_agent)
      /\ ~ Dispatch(Lookup(agent_registry, returned.message.to_agent),
                    returned.message, Bus).raised )
    => returned.value.status = "delivered"

\* C4 amended: a send to a registered target whose handler does not raise returns the
\* handler's own result: task_completed with the agent's result and agent_type, or
\* task_rejected, for a task request; data_received with the number of shared items
\* and the target for data sharing; delivered with the message type for the other kinds.
C4_HandlerResultIsReturned ==
    ( /\ returned.op = "send_message"
      /\ IsRegistered(agent_registry, returned.message.to_agent)
      /\ ~ Dispatch(Lookup(agent_registry, returned.message.to_agent),
                    returned.message, Bus).raised )
    => LET message == returned.message
           value   == returned.value
           task    == Get(message.content, "task", PyDict(<<>>))
           data    == Get(message.content, "data", PyDict(<<>>))
       IN  IF message.message_type = "TASK_REQUEST"
           THEN \/ /\ Len(calls) = 1
                   /\ calls[1].method = "process_emotional_journal"
                   /\ value = [status     |-> "task_completed",
                               result     |-> AgentResult("process_emotional_journal",
                                                          task.value["journal_entry"]),
                               agent_type |-> "emotional_support"]
                \/ /\ Len(calls) = 1
                   /\ calls[1].method = "create_study_plan"
                   /\ value = [status     |-> "task_completed",
                               result     |-> AgentResult("create_study_plan",
                                                          task.value["subjects"]),
                               agent_type |-> "study_planning"]
                \/ /\ calls = <<>>
                   /\ value = [status |-> "task_rejected",
                               reason |-> "unsupported_task_type"]
           ELSE IF message.message_type = "DATA_SHARING"
           THEN value = [status     |-> "data_received",
                         data_items |-> Cardinality(DOMAIN data.value),
                         agent      |-> message.to_agent]
           ELSE value = [status       |-> "delivered",
                         message_type |-> MessageType[message.message_type]]

\* shared data reached a registered target
C4_Witness ==
    /\ returned.op = "send_message"
    /\ returned.message.message_type = "DATA_SHARING"
    /\ IsRegistered(agent_registry, returned.message.to_agent)
    /\ returned.value.status = "data_received"
    /\ returned.value.data_items = 2

\* C5: a task request to a registered agent whose task has neither a journal_entry for
\* a journal-capable target nor subjects for a plan-capable target returns
\* task_rejected / unsupported_task_type, invokes no agent method and does not raise.
C5_UnsupportedTaskIsRejected ==
    ( /\ returned.op = "send_message"
      /\ returned.message.message_type = "TASK_REQUEST"
      /\ IsRegistered(agent_registry, returned.message.to_agent) )
    => LET agent == Lookup(agent_registry, returned.message.to_agent)
           task  == Get(returned.message.content, "task", PyDict(<<>>))
           Has(key) == task.type = "dict" /\ key \in DOMAIN task.value
           supported ==
               \/ HasAttr(agent, "process_emotional_journal") /\ Has("journal_entry")
               \/ HasAttr(agent, "create_study_plan") /\ Has("subjects")
       IN  ~ supported =>
               /\ returned.value = [status |-> "task_rejected",
                                    reason |-> "unsupported_task_type"]
               /\ calls = <<>>
               /\ ~ returned.raised

----------------------------------------------------------------------------
(* Properties of broadcast_message *)

\* C6 as stated: a broadcast sends registeredCount - 1 envelopes (0 when the sender
\* is the sole registrant) and returns as many results.
C6_CountIsRegisteredMinusOne ==
    returned.op = "broadcast_message" =>
        LET expected == IF Len(agent_registry) > 0 THEN Len(agent_registry) - 1 ELSE 0
        IN  /\ Len(returned.envelopes) = expected
            /\ Cardinality(DOMAIN returned.value) = expected

\* C6 amended: a broadcast sends exactly one envelope to each registered agent other
\* than the sender and none to the sender, in registry order, and returns one result
\* for each of them; their number is registeredCount - 1 when the sender is
\* registered and registeredCount when it is not.
C6_OneEnvelopePerOtherAgent ==
    returned.op = "broadcast_message" =>
        LET envelopes == returned.envelopes
            others    == RegisteredNames(agent_registry) \ {returned.from_agent}
            count     == IF IsRegistered(agent_registry, returned.from_agent)
                         THEN Len(agent_registry) - 1
                         ELSE Len(agent_registry)
        IN  /\ Len(envelopes) = count
            /\ Cardinality(DOMAIN returned.value) = count
            /\ DOMAIN returned.value = others
            /\ { envelopes[i].to_agent : i \in DOMAIN envelopes } = others
            /\ \A i \in DOMAIN envelopes : envelopes[i].from_agent = returned.from_agent
            /\ \A i, j \in DOMAIN envelopes :
                   i # j => envelopes[i].to_agent # envelopes[j].to_agent
            /\ Len(message_queue) >= count
            /\ SubSeq(message_queue, Len(message_queue) - count + 1, Len(message_queue))
                   = envelopes

\* a broadcast of a sender that is not registered reached two agents
C6_Witness ==
    /\ returned.op = "broadcast_message"
    /\ ~ IsRegistered(agent_registry, returned.from_agent)
    /\ Len(agent_registry) = 2
    /\ Len(returned.envelopes) = 2
    /\ DOMAIN returned.value = {"study", "study_group"}

----------------------------------------------------------------------------
(* Properties of get_conversation_history *)

\* C7: for all names A and B, get_conversation_history(A, B) holds exactly the
\* envelopes sent from A to B or from B to A, each once, none of another pair, and
\* get_conversation_history(B, A) is the same sequence.
C7_HistoryIsThePairsEnvelopes ==
    \A agent1 \in Names, agent2 \in Names :
        LET history == GetConversationHistory(conversation_history, agent1, agent2)
            sent    == { i \in DOMAIN message_queue :
                           {message_queue[i].from_agent, message_queue[i].to_agent}
                               = {agent1, agent2} }
        IN  /\ Len(history) = Cardinality(sent)
            /\ \A i \in sent : \E j \in DOMAIN history :
                   history[j] = ToDict(message_queue[i])
            /\ \A j \in DOMAIN history : \E i \in sent :
                   history[j] = ToDict(message_queue[i])
            /\ history = GetConversationHistory(conversation_history, agent2, agent1)

\* C8: get_conversation_history(A, B) lists the envelopes in the order they were
\* sent: an entry listed before another was not sent after it.
C8_HistoryInSendOrder ==
    \A agent1 \in Names, agent2 \in Names :
        LET history == GetConversationHistory(conversation_history, agent1, agent2)
        IN  \A i, j \in DOMAIN history :
                i < j => \E p, q \in DOMAIN message_queue :
                             /\ p <= q
                             /\ ToDict(message_queue[p]) = history[i]
                             /\ ToDict(message_queue[q]) = history[j]

----------------------------------------------------------------------------
(* Properties of the envelope *)

\* C9: from_dict(to_dict(e)) reproduces e field for field: id, kind, from, to,
\* payload and creation timestamp.
C9_RoundTripReproducesEnvelope ==
    roundtrip.done =>
        /\ roundtrip.copy.message_id = roundtrip.original.message_id
        /\ roundtrip.copy.message_type = roundtrip.original.message_type
        /\ roundtrip.copy.from_agent = roundtrip.original.from_agent
        /\ roundtrip.copy.to_agent = roundtrip.original.to_agent
        /\ roundtrip.copy.content = roundtrip.original.content
        /\ roundtrip.copy.timestamp = roundtrip.original.timestamp

\* C10: two envelopes constructed without an explicit message_id have distinct ids.
C10_GeneratedIdsAreDistinct ==
    \A i, j \in DOMAIN message_queue :
        i # j => message_queue[i].message_id # message_queue[j].message_id

----------------------------------------------------------------------------
(* The memory bank: EmotionalMemoryBank, EmotionalSupportAgent.compact_memory *)
(* and EmotionalSupportAgent.process_emotional_journal                       *)

MaxStores == 4        \* direct store_emotional_pattern calls in one behaviour
MaxJournals == 16     \* process_emotional_journal calls in one behaviour
AutoCompactCap == 15  \* max_entries=15 in process_emotional_journal

\* list[start:] for any integer start: a negative start counts from the end
SliceFrom(list, start) ==
    LET n     == Len(list)
        first == IF start < 0
                 THEN (IF n + start < 0 THEN 0 ELSE n + start)
                 ELSE (IF start > n THEN n ELSE start)
    IN  SubSeq(list, first + 1, n)

\* f"pattern_{n}"
PatternId(n) == "pattern_" \o ToString(n)

\* EmotionalMemoryBank.store_emotional_pattern: the bank after the call
StoreEmotionalPattern(bank, user_id, emotion_data, now) ==
    LET created == IF user_id \in DOMAIN bank THEN bank
                   ELSE (user_id :> <<>>) @@ bank
        record  == [data       |-> emotion_data,
                    timestamp  |-> IsoFormat(now),
                    pattern_id |-> PatternId(Len(created[user_id]) + 1)]
    IN  [created EXCEPT ![user_id] = Append(@, record)]

\* CompactMemory keeping the oldest max_entries records
CompactMemory_KeepsOldest(bank, user_id, max_entries, now) ==
    IF user_id \in DOMAIN bank /\ Len(bank[user_id]) > max_entries
    THEN LET history   == bank[user_id]
             compacted == SubSeq(history, 1, Len(history) - Len(SliceFrom(history, max_entries)))
         IN  [memories |-> [bank EXCEPT ![user_id] = compacted],
              value    |-> [compacted   |-> TRUE,
                            before      |-> Len(history),
                            after       |-> Len(compacted),
                            removed     |-> Len(history) - Len(compacted),
                            max_entries |-> max_entries,
                            timestamp   |-> IsoFormat(now)],
              reads    |-> 1]
    ELSE [memories |-> bank,
          value    |-> [compacted |-> FALSE, reason |-> "no_compaction_needed"],
          reads    |-> 0]

\* EmotionalSupportAgent.compact_memory: the bank after the call, the value
\* returned, and the number of clock readings made
CompactMemory(bank, user_id, max_entries, now) ==
    IF user_id \in DOMAIN bank /\ Len(bank[user_id]) > max_entries
    THEN LET history   == bank[user_id]
             compacted == SliceFrom(history, 0 - max_entries)
         IN  [memories |-> [bank EXCEPT ![user_id] = compacted],
              value    |-> [compacted   |-> TRUE,
                            before      |-> Len(history),
                            after       |-> Len(compacted),
                            removed     |-> Len(history) - Len(compacted),
                            max_entries |-> max_entries,
                            timestamp   |-> IsoFormat(now)],
              reads    |-> 1]
    ELSE [memories |-> bank,
          value    |-> [compacted |-> FALSE, reason |-> "no_compaction_needed"],
          reads    |-> 0]

\* str.lower() on the emotion names in use
Lower(text) ==
    LET table == ("Stressed" :> "stressed") @@ ("Happy" :> "happy")
    IN  IF text \in DOMAIN table THEN table[text] ELSE text

\* FileTools.estimate_mood_score
EstimateMoodScore(emotion) ==
    IF Lower(emotion) \in {"happy", "joy", "excited", "grateful", "peaceful", "content"}
    THEN 8
    ELSE IF Lower(emotion) \in {"sad", "angry", "anxious", "stressed", "frustrated",
                                "overwhelmed"}
    THEN 3
    ELSE 5

\* emotional_responses.get(primary_emotion, f"I understand you're feeling {primary_emotion}...")
InsightText(primary_emotion) ==
    IF primary_emotion \in {"overwhelmed", "stressed", "anxious", "uncertain"}
    THEN "emotional_responses[" \o primary_emotion \o "]"
    ELSE "I understand you're feeling " \o primary_emotion

\* `emotion_tags[0] if emotion_tags else "reflective"`: None and [] are falsy
PrimaryEmotion(emotion_tags) ==
    IF emotion_tags.type = "NoneType" THEN "reflective"
    ELSE IF emotion_tags.value = <<>> THEN "reflective"
    ELSE emotion_tags.value[1]

\* EmotionalSupportAgent.process_emotional_journal: the bank after the call and
\* the value returned.  journal_entry[:50] raises on None before anything is
\* stored, and the except clause turns that into the fallback value.
ProcessEmotionalJournalOp(bank, journal_entry, emotion_tags, user_id, readings) ==
    IF journal_entry = PyNoneStr
    THEN [memories |-> bank,
          value    |-> [error |-> "Emotional processing failed: "
                                  \o "'NoneType' object is not subscriptable",
                        fallback_message |-> "I'm here to listen and support you."],
          appended |-> FALSE,
          clock    |-> readings[1]]
    ELSE LET primary_emotion == PrimaryEmotion(emotion_tags)
             insight_text    == InsightText(primary_emotion)
             mood_score      == EstimateMoodScore(primary_emotion)
             emotional_data  == [journal_entry     |-> journal_entry,
                                 emotion_tags      |-> emotion_tags,
                                 emotional_insight |-> insight_text,
                                 primary_emotion   |-> primary_emotion,
                                 mood_score        |-> mood_score]
             after_store     == StoreEmotionalPattern(bank, user_id, emotional_data,
                                                      readings[1])
             compaction      == CompactMemory(after_store, user_id, AutoCompactCap,
                                              readings[2])
             processed_at    == readings[2 + compaction.reads]
         IN  [memories |-> compaction.memories,
              value    |-> [emotional_insight  |-> insight_text,
                            primary_emotion    |-> primary_emotion,
                            mood_score         |-> mood_score,
                            processed_at       |-> IsoFormat(processed_at),
                            user_id            |-> user_id,
                            context_compaction |-> compaction.value,
                            demo_mode          |-> TRUE],
              appended |-> TRUE,
              clock    |-> processed_at]

\* the records of every call so far: the append log of a user, grown by one record
Log(log, user_id, record) ==
    (user_id :> Append(Get(log, user_id, <<>>), record)) @@ log

\* the number of records in the lists of a dict, over the given keys
RECURSIVE TotalLen(_, _)
TotalLen(log, users) ==
    IF users = {} THEN 0
    ELSE LET u == CHOOSE v \in users : TRUE
         IN  Len(log[u]) + TotalLen(log, users \ {u})

\* the number of records appended so far, over all users
Appended == TotalLen(stored, DOMAIN stored)

UserIds == {"default", "parallel_user"}

\* the max_entries arguments of direct compact_memory calls
Caps == {0, 1, 2, 3}

StoredData == [primary_emotion |-> "stressed", mood_score |-> 3]

\* the (journal_entry, emotion_tags, user_id) arguments of process_emotional_journal
Journals ==
    { <<"stressed about exams", PyNone, "default">>,
      <<"stressed about exams", PyList(<<"stressed", "anxious">>), "parallel_user">>,
      <<PyNoneStr, PyNone, "default">> }

\* EmotionalMemoryBank.store_emotional_pattern, called directly
StorePattern(user_id, emotion_data, now) ==
    LET bank == StoreEmotionalPattern(memories, user_id, emotion_data, now)
    IN  /\ Appended < MaxStores
        /\ memories' = bank
        /\ stored' = Log(stored, user_id, bank[user_id][Len(bank[user_id])])
        /\ UNCHANGED detached
        /\ clock' = now
        /\ returned' = [op |-> "store_emotional_pattern", user_id |-> user_id]
        /\ UNCHANGED <<busVars, executorVars, operationVars, in_flight>>

\* EmotionalSupportAgent.compact_memory, called directly
CompactMemoryCall(user_id, max_entries, now) ==
    LET done == CompactMemory(memories, user_id, max_entries, now)
    IN  /\ memories' = done.memories
        /\ clock' = IF done.reads = 1 THEN now ELSE clock
        /\ returned' = [op |-> "compact_memory", user_id |-> user_id,
                        max_entries |-> max_entries, value |-> done.value]
        /\ UNCHANGED <<stored, detached, busVars, executorVars, operationVars, in_flight>>

\* EmotionalSupportAgent.process_emotional_journal
ProcessEmotionalJournal(journal_entry, emotion_tags, user_id, readings) ==
    LET done == ProcessEmotionalJournalOp(memories, journal_entry, emotion_tags,
                                          user_id, readings)
    IN  /\ Appended < MaxJournals
        /\ memories' = done.memories
        /\ stored' = IF done.appended
                     THEN Log(stored, user_id,
                              LET history == done.memories[user_id]
                              IN  history[Len(history)])
                     ELSE stored
        /\ clock' = done.clock
        /\ returned' = [op |-> "process_emotional_journal", user_id |-> user_id,
                        value |-> done.value]
        /\ UNCHANGED detached
        /\ UNCHANGED <<busVars, executorVars, operationVars, in_flight>>

NextMemory ==
    \/ \E user_id \in UserIds, now \in Readings(clock) :
           StorePattern(user_id, StoredData, now)
    \/ \E user_id \in UserIds, max_entries \in Caps, now \in Readings(clock) :
           CompactMemoryCall(user_id, max_entries, now)

SpecMemory == Init /\ [][NextMemory]_vars

NextJournal ==
    \E journal \in Journals, readings \in ReadingSequences(clock, 3) :
        ProcessEmotionalJournal(journal[1], journal[2], journal[3], readings)

SpecJournal == Init /\ [][NextJournal]_vars

----------------------------------------------------------------------------
(* Claims about the memory bank *)

\* the number n of the pattern_id f"pattern_{n}" of a record of the user
PatternNumber(user_id, pattern_id) ==
    CHOOSE n \in 1..Len(stored[user_id]) : PatternId(n) = pattern_id

\* the last `count` elements of a list, all of it when it is shorter
LastRecords(list, count) ==
    SubSeq(list, (IF Len(list) > count THEN Len(list) - count ELSE 0) + 1, Len(list))

\* C11: after any sequence of store_emotional_pattern and compact_memory calls,
\* the pattern_id numbers of one user's stored records are strictly increasing
\* in stored order, so no two records of a user share a pattern_id.
C11_PatternIdsStrictlyIncrease ==
    \A user_id \in DOMAIN memories :
        \A i, j \in DOMAIN memories[user_id] :
            i < j => PatternNumber(user_id, memories[user_id][i].pattern_id)
                     < PatternNumber(user_id, memories[user_id][j].pattern_id)

\* C12: after compact_memory(user, K) the user's history has length
\* min(length before, K) and equals the last K records of the history before
\* the call, in their original order.
C12_CompactKeepsLastK ==
    [][ returned'.op = "compact_memory" =>
            LET user_id == returned'.user_id
                K       == returned'.max_entries
                before  == Get(memories, user_id, <<>>)
                after   == Get(memories', user_id, <<>>)
            IN  /\ Len(after) = (IF Len(before) < K THEN Len(before) ELSE K)
                /\ after = LastRecords(before, K) ]_vars

\* C13: compact_memory(user, K) reports compacted = true exactly when the history
\* was longer than K, with before = length before, after = length after = K and
\* removed = before - after; otherwise it returns {compacted: false, reason:
\* no_compaction_needed} and leaves the history unchanged.
C13_CompactionReport ==
    [][ returned'.op = "compact_memory" =>
            LET user_id == returned'.user_id
                K       == returned'.max_entries
                before  == Get(memories, user_id, <<>>)
                after   == Get(memories', user_id, <<>>)
                report  == returned'.value
            IN  /\ report.compacted <=> Len(before) > K
                /\ report.compacted =>
                       /\ report.before = Len(before)
                       /\ report.after = Len(after)
                       /\ report.after = K
                       /\ report.removed = report.before - report.after
                /\ ~report.compacted =>
                       /\ report = [compacted |-> FALSE, reason |-> "no_compaction_needed"]
                       /\ memories' = memories ]_vars

\* C14: compact_memory is idempotent: a second consecutive compact_memory(user, K)
\* returns compacted = false and leaves the history as the first call left it.
C14_CompactIsIdempotent ==
    [][ returned'.op = "compact_memory" =>
            \A now \in Readings(clock') :
                LET second == CompactMemory(memories', returned'.user_id,
                                            returned'.max_entries, now)
                IN  /\ second.value.compacted = FALSE
                    /\ second.memories = memories' ]_vars

\* C15: after every process_emotional_journal call returns, each user's stored
\* history holds at most 15 records and they are the most recent records
\* appended for that user, in append order.
C15_JournalHistoryIsLastFifteen ==
    \A user_id \in DOMAIN stored :
        /\ user_id \in DOMAIN memories
        /\ Len(memories[user_id]) <= AutoCompactCap
        /\ memories[user_id] = LastRecords(stored[user_id], AutoCompactCap)

C15_Witness ==
    /\ returned.op = "process_emotional_journal"
    /\ \E user_id \in DOMAIN stored :
           /\ Len(stored[user_id]) > AutoCompactCap
           /\ Len(memories[user_id]) = AutoCompactCap
           /\ returned.user_id = user_id
           /\ returned.value.context_compaction.compacted

----------------------------------------------------------------------------
(* The thread-per-task executor: ParallelAgentExecutor *)

\* a Python dict as the list of its items in insertion order:
\* d[key] = value replaces the value of a key in place and appends a new key
ItemAssign(dict, key, value) ==
    IF \E i \in DOMAIN dict : dict[i].key = key
    THEN [ i \in DOMAIN dict |->
             IF dict[i].key = key THEN [key |-> key, value |-> value] ELSE dict[i] ]
    ELSE Append(dict, [key |-> key, value |-> value])

ItemKeys(dict) == { dict[i].key : i \in DOMAIN dict }

ItemValue(dict, key) == dict[CHOOSE i \in DOMAIN dict : dict[i].key = key].value

\* the callables registered as tasks: what a call of each one does
ProcessJournalTask == [raises |-> FALSE, value |-> [primary_emotion |-> "stressed"]]
CreateStudyPlanTask == [raises |-> FALSE, value |-> [study_plan |-> "4 weeks"]]
FailingTask == [raises |-> TRUE, error |-> "can only join an iterable"]

TaskNames == {"emotional_analysis", "study_planning", "community"}

Tasks == {ProcessJournalTask, CreateStudyPlanTask, FailingTask}

\* run_agent, lines 23-29: the value stored under the task's name
RunAgentResult(task) ==
    IF task.raises THEN [error |-> task.error] ELSE task.value

\* thread.join() returning at once, whether or not the thread has finished
Joined_NoWait(thread) == TRUE

\* thread.join() returns once the thread has run to its end
Joined(thread) == thread.at = "finished"

\* the position of execute_parallel after its start loop has handled i - 1 items
AfterStart(i) ==
    IF i > Len(agents) THEN [at |-> "joining", j |-> 1]
    ELSE [at |-> "starting", i |-> i]

\* ParallelAgentExecutor.add_agent
AddAgent(name, task) ==
    /\ runner.at = "idle"
    /\ agents' = ItemAssign(agents, name, task)
    /\ returned' = [op |-> "add_agent"]
    /\ UNCHANGED <<results, threads, runner>>
    /\ UNCHANGED <<clock, busVars, memoryVars, operationVars, in_flight>>

\* execute_parallel, lines 19-20: the call begins with empty results and threads
ExecuteParallelCall ==
    /\ runner.at = "idle"
    /\ results' = <<>>
    /\ threads' = <<>>
    /\ runner' = AfterStart(1)
    /\ returned' = [op |-> "execute_parallel", at |-> "called"]
    /\ UNCHANGED agents
    /\ UNCHANGED <<clock, busVars, memoryVars, operationVars, in_flight>>

\* execute_parallel, lines 32-39: one turn of the loop that starts the threads
StartThread ==
    /\ runner.at = "starting"
    /\ threads' = Append(threads, [name |-> agents[runner.i].key,
                                   task |-> agents[runner.i].value,
                                   at   |-> "started"])
    /\ runner' = AfterStart(runner.i + 1)
    /\ UNCHANGED <<agents, results, returned>>
    /\ UNCHANGED <<clock, busVars, memoryVars, operationVars, in_flight>>

\* run_agent, line 24: thread k calls its agent_func, which returns or raises
CallAgentFunc(k) ==
    /\ threads[k].at = "started"
    /\ threads' = [threads EXCEPT ![k].at = "called"]
    /\ UNCHANGED <<agents, results, runner, returned>>
    /\ UNCHANGED <<clock, busVars, memoryVars, operationVars, in_flight>>

\* run_agent, lines 25 and 28: thread k stores its result or its error, and ends
StoreResult(k) ==
    /\ threads[k].at = "called"
    /\ results' = ItemAssign(results, threads[k].name, RunAgentResult(threads[k].task))
    /\ threads' = [threads EXCEPT ![k].at = "finished"]
    /\ UNCHANGED <<agents, runner, returned>>
    /\ UNCHANGED <<clock, busVars, memoryVars, operationVars, in_flight>>

\* execute_parallel, lines 42-43: one turn of the loop that joins the threads
JoinThread ==
    /\ runner.at = "joining"
    /\ runner.j <= Len(threads)
    /\ Joined(threads[runner.j])
    /\ runner' = [runner EXCEPT !.j = @ + 1]
    /\ UNCHANGED <<agents, results, threads, returned>>
    /\ UNCHANGED <<clock, busVars, memoryVars, operationVars, in_flight>>

\* execute_parallel, line 46: return results
ExecuteParallelReturn ==
    /\ runner.at = "joining"
    /\ runner.j > Len(threads)
    /\ runner' = [at |-> "idle"]
    /\ returned' = [op |-> "execute_parallel", at |-> "returned", value |-> results]
    /\ UNCHANGED <<agents, results, threads>>
    /\ UNCHANGED <<clock, busVars, memoryVars, operationVars, in_flight>>

NextExecutor ==
    \/ \E name \in TaskNames, task \in Tasks : AddAgent(name, task)
    \/ ExecuteParallelCall
    \/ StartThread
    \/ \E k \in DOMAIN threads : CallAgentFunc(k)
    \/ \E k \in DOMAIN threads : StoreResult(k)
    \/ JoinThread
    \/ ExecuteParallelReturn

SpecExecutor == Init /\ [][NextExecutor]_vars

----------------------------------------------------------------------------
(* Claims about the executor *)

\* C16: execute_parallel returns only after every registered task has finished,
\* and in every interleaving of the task threads the returned mapping's key set
\* is exactly the set of registered task names: a task that returns maps to its
\* value, a task that raises maps to {error: message}, whatever the other tasks do.
C16_ResultPerRegisteredTask ==
    [][ (runner.at # "idle" /\ runner'.at = "idle") =>
            /\ \A k \in DOMAIN threads : threads[k].at = "finished"
            /\ ItemKeys(returned'.value) = ItemKeys(agents)
            /\ \A i \in DOMAIN agents :
                   LET task  == agents[i].value
                       entry == ItemValue(returned'.value, agents[i].key)
                   IN  IF task.raises THEN entry = [error |-> task.error]
                       ELSE entry = task.value ]_vars

\* a call has returned for three tasks, one of which raised, whose threads
\* stored their results in another order than they were started in
C16_Witness ==
    /\ returned = [op |-> "execute_parallel", at |-> "returned", value |-> results]
    /\ Len(agents) = 3
    /\ \E i \in DOMAIN agents : agents[i].value.raises
    /\ \E i \in DOMAIN agents : ~agents[i].value.raises
    /\ \E i \in DOMAIN results : results[i].key # agents[i].key

----------------------------------------------------------------------------
(* The pausable background operation: LongRunningOperation.                  *)
(* One controlling thread calls start, pause, resume and stop; every start   *)
(* that gets past its test launches a _wrapper thread.  The methods take no  *)
(* lock, so a step of a _wrapper thread may fall between the test a method   *)
(* makes of self.status and the assignments that follow it, and between the  *)
(* test _wrapper makes of self.should_stop and its assignment of COMPLETED.  *)

MaxWorkers == 2   \* _wrapper threads launched in one behaviour

NonTerminal == {OperationStatus.PENDING, OperationStatus.RUNNING, OperationStatus.PAUSED}

\* start, line 37: `if self.status == RUNNING: return`
StartReturnsEarly(saw) == saw = OperationStatus.RUNNING

\* pause assigning whatever the status it found
PauseApplies_Always(saw) == TRUE

\* pause, line 66: `if self.status == RUNNING`
PauseApplies(saw) == saw = OperationStatus.RUNNING

\* resume, line 75: `if self.status == PAUSED`
ResumeApplies(saw) == saw = OperationStatus.PAUSED

\* the controlling thread enters a method and evaluates the test on self.status
\* that the method begins with
MethodCall(method) ==
    /\ caller.at = "idle"
    /\ caller' = [at |-> method, saw |-> status]
    /\ UNCHANGED <<status, should_stop, pause_event, progress, result, error,
                   workers, returned>>
    /\ UNCHANGED <<clock, busVars, memoryVars, executorVars, in_flight>>

\* LongRunningOperation.start, line 37
StartCall ==
    /\ Len(workers) < MaxWorkers
    /\ MethodCall("start")

\* LongRunningOperation.start, lines 38-39 or lines 41-62
StartBody ==
    /\ caller.at = "start"
    /\ IF StartReturnsEarly(caller.saw)
       THEN UNCHANGED <<status, should_stop, pause_event, workers>>
       ELSE /\ status' = OperationStatus.RUNNING
            /\ should_stop' = FALSE
            /\ pause_event' = TRUE
            /\ workers' = Append(workers, [at |-> "running"])
    /\ caller' = [at |-> "idle"]
    /\ returned' = [op |-> "start", saw |-> caller.saw]
    /\ UNCHANGED <<progress, result, error>>
    /\ UNCHANGED <<clock, busVars, memoryVars, executorVars, in_flight>>

\* LongRunningOperation.pause, line 66
PauseCall == MethodCall("pause")

\* LongRunningOperation.pause, lines 67-71
PauseBody ==
    /\ caller.at = "pause"
    /\ IF PauseApplies(caller.saw)
       THEN /\ status' = OperationStatus.PAUSED
            /\ pause_event' = FALSE
       ELSE UNCHANGED <<status, pause_event>>
    /\ caller' = [at |-> "idle"]
    /\ returned' = [op |-> "pause", saw |-> caller.saw]
    /\ UNCHANGED <<should_stop, progress, result, error, workers>>
    /\ UNCHANGED <<clock, busVars, memoryVars, executorVars, in_flight>>

\* LongRunningOperation.resume, line 75
ResumeCall == MethodCall("resume")

\* LongRunningOperation.resume, lines 76-80
ResumeBody ==
    /\ caller.at = "resume"
    /\ IF ResumeApplies(caller.saw)
       THEN /\ status' = OperationStatus.RUNNING
            /\ pause_event' = TRUE
       ELSE UNCHANGED <<status, pause_event>>
    /\ caller' = [at |-> "idle"]
    /\ returned' = [op |-> "resume", saw |-> caller.saw]
    /\ UNCHANGED <<should_stop, progress, result, error, workers>>
    /\ UNCHANGED <<clock, busVars, memoryVars, executorVars, in_flight>>

\* LongRunningOperation.stop: makes no test, assigns the flag and the status
Stop ==
    /\ caller.at = "idle"
    /\ should_stop' = TRUE
    /\ status' = OperationStatus.FAILED
    /\ returned' = [op |-> "stop", saw |-> status]
    /\ UNCHANGED <<pause_event, progress, result, error, workers, caller>>
    /\ UNCHANGED <<clock, busVars, memoryVars, executorVars, in_flight>>

\* what the target function of the k-th start returns, and str(e) of what it raises
TargetValue(k) == "result " \o ToString(k)

TargetError(k) == "error " \o ToString(k)

\* _wrapper, line 48: target_function returns and its value is stored
TargetReturns(k) ==
    /\ workers[k].at = "running"
    /\ result' = TargetValue(k)
    /\ workers' = [workers EXCEPT ![k].at = "returned"]
    /\ UNCHANGED <<status, should_stop, pause_event, progress, error, caller, returned>>
    /\ UNCHANGED <<clock, busVars, memoryVars, executorVars, in_flight>>

\* _wrapper, lines 48 and 53-56: target_function raises
TargetRaises(k) ==
    /\ workers[k].at = "running"
    /\ status' = OperationStatus.FAILED
    /\ error' = TargetError(k)
    /\ workers' = [workers EXCEPT ![k].at = "finished"]
    /\ UNCHANGED <<should_stop, pause_event, progress, result, caller, returned>>
    /\ UNCHANGED <<clock, busVars, memoryVars, executorVars, in_flight>>

\* _wrapper, line 49: `if not self.should_stop`
TestShouldStop(k) ==
    /\ workers[k].at = "returned"
    /\ workers' = [workers EXCEPT ![k].at = IF should_stop THEN "finished"
                                           ELSE "completing"]
    /\ UNCHANGED <<status, should_stop, pause_event, progress, result, error,
                   caller, returned>>
    /\ UNCHANGED <<clock, busVars, memoryVars, executorVars, in_flight>>

\* _wrapper, lines 50-51
Complete(k) ==
    /\ workers[k].at = "completing"
    /\ status' = OperationStatus.COMPLETED
    /\ progress' = 100
    /\ workers' = [workers EXCEPT ![k].at = "finished"]
    /\ UNCHANGED <<should_stop, pause_event, result, error, caller, returned>>
    /\ UNCHANGED <<clock, busVars, memoryVars, executorVars, in_flight>>

NextOperation ==
    \/ StartCall
    \/ StartBody
    \/ PauseCall
    \/ PauseBody
    \/ ResumeCall
    \/ ResumeBody
    \/ Stop
    \/ \E k \in DOMAIN workers : TargetReturns(k)
    \/ \E k \in DOMAIN workers : TargetRaises(k)
    \/ \E k \in DOMAIN workers : TestShouldStop(k)
    \/ \E k \in DOMAIN workers : Complete(k)

SpecOperation == Init /\ [][NextOperation]_vars

----------------------------------------------------------------------------
(* Claims about the background operation *)

\* the controlling thread leaves the given method in this step
Leaves(method) == caller.at = method /\ caller'.at = "idle"

\* this step is a call of stop
StopStep == returned'.op = "stop" /\ caller.at = "idle" /\ workers' = workers

\* C17: every status change of a LongRunningOperation, under any sequence and
\* interleaving of start, pause, resume, stop and the worker finishing, is one
\* of Pending to Running, Running to Paused, Paused to Running, Running to
\* Completed, Running to Failed, or stop taking a non-terminal state to Failed.
C17_StatusChangesAreLegal ==
    [][ status' # status =>
            \/ <<status, status'>> \in
                   { <<OperationStatus.PENDING, OperationStatus.RUNNING>>,
                     <<OperationStatus.RUNNING, OperationStatus.PAUSED>>,
                     <<OperationStatus.PAUSED, OperationStatus.RUNNING>>,
                     <<OperationStatus.RUNNING, OperationStatus.COMPLETED>>,
                     <<OperationStatus.RUNNING, OperationStatus.FAILED>> }
            \/ /\ StopStep
               /\ status \in NonTerminal
               /\ status' = OperationStatus.FAILED ]_vars

\* C18: start takes effect only from Pending: called in any other status it
\* changes neither the status nor the stop flag and launches no worker thread.
C18_StartOnlyFromPending ==
    [][ (Leaves("start") /\ caller.saw # OperationStatus.PENDING) =>
            /\ status' = status
            /\ should_stop' = should_stop
            /\ workers' = workers ]_vars

C20_StoppedStaysFailed ==
    (/\ returned.op = "stop"
     /\ returned.saw \in NonTerminal
     /\ caller.at = "idle")
        => /\ should_stop
           /\ status = OperationStatus.FAILED

\* worker k writes Completed (line 50), or catches what the target raised (line 54),
\* in this step
Completes(k) == workers[k].at = "completing" /\ workers'[k].at = "finished"

Fails(k) == workers[k].at = "running" /\ workers'[k].at = "finished"

\* C21: when the wrapped work of a started operation returns normally and no stop
\* was requested, the operation goes from Running to Completed with the return
\* value stored as result; when the wrapped work raises, the operation becomes
\* Failed with the error message stored.
C21_WorkerOutcomeIsRecorded ==
    [][ \A k \in DOMAIN workers :
            /\ (Completes(k) /\ ~should_stop) =>
                   /\ status = OperationStatus.RUNNING
                   /\ status' = OperationStatus.COMPLETED
                   /\ result' = TargetValue(k)
            /\ Fails(k) =>
                   /\ status' = OperationStatus.FAILED
                   /\ error' = TargetError(k) ]_vars

\* C29: Completed and Failed are terminal: once the status is Completed or Failed,
\* no later start, pause, resume, stop or worker completion changes the status.
C29_CompletedAndFailedAreTerminal ==
    [][ (status \in {OperationStatus.COMPLETED, OperationStatus.FAILED})
            => (status' = status) ]_vars

\* the worker threads that are inside the target function
InTarget == {k \in DOMAIN workers : workers[k].at = "running"}

\* C30: at every moment at most one worker thread of a LongRunningOperation is
\* running the target function, for any sequence of start, pause, resume and stop.
C30_AtMostOneWorkerInTarget == Cardinality(InTarget) <= 1

----------------------------------------------------------------------------
(* Claims about the bus as a whole *)

\* the number of envelopes in all the per-pair conversation histories
HistoryTotal == TotalLen(conversation_history, DOMAIN conversation_history)

\* C26: after any sequence of send_message and broadcast_message calls made one at
\* a time, the length of the send log (message_queue) equals the sum of the
\* lengths of all per-pair conversation histories, and neither ever shrinks.
C26_SendLogMatchesHistories ==
    /\ [] (Len(message_queue) = HistoryTotal)
    /\ [][ /\ Len(message_queue') >= Len(message_queue)
           /\ \A key \in DOMAIN conversation_history :
                  /\ key \in DOMAIN conversation_history'
                  /\ Len(conversation_history'[key]) >= Len(conversation_history[key])
         ]_vars

\* a broadcast has just recorded two envelopes, each in the history of its own pair
C26_Witness ==
    /\ returned.op = "broadcast_message"
    /\ Len(message_queue) = 2
    /\ Cardinality(DOMAIN conversation_history) = 2

----------------------------------------------------------------------------
(* Dispatch of task requests: every capability set against every task shape *)

TaskMethods == {"process_emotional_journal", "create_study_plan"}

\* the objects registered: any set of the two task methods, raising or not
DispatchAgents == [methods : SUBSET TaskMethods, raises : BOOLEAN]

TaskFields == [journal_entry |-> "stressed about exams", subjects |-> "math"]

\* the payloads: a task dict with any of the fields, a task that is None, no task
DispatchContents ==
    { [task |-> PyDict([field \in fields |-> TaskFields[field]])] :
          fields \in SUBSET DOMAIN TaskFields }
        \cup {NoneTask, EmptyContent}

NextDispatch ==
    \/ \E agent \in DispatchAgents : RegisterAgent("study", agent)
    \/ \E content \in DispatchContents, readings \in ReadingSequences(clock, 2) :
           SendMessage("TASK_REQUEST", "orchestrator", "study", content,
                       readings[1], readings[2])

SpecDispatch == Init /\ [][NextDispatch]_vars

\* the task of the envelope last sent, and the agent it was addressed to
SentTask == Get(returned.message.content, "task", PyDict(<<>>))

SentTo == Lookup(agent_registry, returned.message.to_agent)

\* the target has the capability and the task has the field
Matches(method, field) ==
    /\ HasAttr(SentTo, method)
    /\ SentTask.type = "dict"
    /\ field \in DOMAIN SentTask.value

\* the agent methods the last call invoked
Ran == { calls[i].method : i \in DOMAIN calls }

\* C25: dispatch of a TaskRequest is decided by the target's capabilities and the
\* payload shape together: the journal handler runs (agent_type emotional_support)
\* exactly when the target has the journal capability and the task has
\* journal_entry; otherwise the study-plan handler runs (agent_type
\* study_planning) exactly when the target has the plan capability and the task
\* has subjects; exactly one handler runs per completed task, with the journal
\* shape taking precedence when both match.
C25_DispatchByCapabilityAndShape ==
    (/\ returned.op = "send_message"
     /\ IsRegistered(agent_registry, returned.message.to_agent))
        => LET journal   == Matches("process_emotional_journal", "journal_entry")
               plan      == Matches("create_study_plan", "subjects")
               completed == /\ ~ returned.raised
                            /\ returned.value.status = "task_completed"
           IN  /\ "process_emotional_journal" \in Ran <=> journal
               /\ "create_study_plan" \in Ran <=> (~ journal /\ plan)
               /\ Len(calls) <= 1
               /\ completed <=> (Len(calls) = 1 /\ ~ SentTo.raises)
               /\ completed =>
                      returned.value.agent_type =
                          IF journal THEN "emotional_support" ELSE "study_planning"

\* a task with both shapes went to an agent with both capabilities: the journal
\* handler alone ran
C25_Witness ==
    /\ returned.op = "send_message"
    /\ IsRegistered(agent_registry, returned.message.to_agent)
    /\ Matches("process_emotional_journal", "journal_entry")
    /\ Matches("create_study_plan", "subjects")
    /\ ~ SentTo.raises
    /\ Ran = {"process_emotional_journal"}
    /\ returned.value.agent_type = "emotional_support"

----------------------------------------------------------------------------
(* AgentSaathiSystem: the orchestrator over the four agents, the bus and    *)
(* the emotional agent's memory bank.  Its own registry and the bus's hold  *)
(* the same four names, so agent_registry stands for both.                  *)

MaxEnvelopes == 4     \* envelopes on the bus up to which requests are taken

PreviewLen == 100

\* CommunityAgent and SocialMediaAgent have neither of the two task methods
CommunityAgent == [methods |-> {}, raises |-> FALSE]

SocialMediaAgent == [methods |-> {}, raises |-> FALSE]

\* AgentSaathiSystem.__init__ and _register_agents_with_a2a
SystemRegistry ==
    << [name |-> "emotional", agent |-> EmotionalSupportAgent],
       [name |-> "study",     agent |-> StudyPlanningAgent],
       [name |-> "community", agent |-> CommunityAgent],
       [name |-> "social",    agent |-> SocialMediaAgent] >>

InitSystem ==
    /\ clock = 0
    /\ agent_registry = SystemRegistry
    /\ conversation_history = <<>>
    /\ message_queue = <<>>
    /\ calls = <<>>
    /\ returned = [op |-> "__init__"]
    /\ roundtrip = NoRoundTrip
    /\ memories = <<>>
    /\ stored = <<>>
    /\ detached = <<>>
    /\ agents = <<>>
    /\ results = <<>>
    /\ threads = <<>>
    /\ runner = [at |-> "idle"]
    /\ status = OperationStatus.PENDING
    /\ should_stop = FALSE
    /\ pause_event = FALSE
    /\ progress = 0
    /\ result = PyNoneStr
    /\ error = PyNoneStr
    /\ workers = <<>>
    /\ caller = [at |-> "idle"]
    /\ in_flight = <<>>

\* text[:n]
Truncate(text, n) == IF Len(text) <= n THEN text ELSE SubSeq(text, 1, n)

\* the plan text: only what it is built from is kept
StudyPlanText(subjects, available_hours, deadline, learning_style) ==
    "PERSONALIZED STUDY PLAN - " \o deadline \o ", "
        \o ToString(available_hours) \o " hours/week, " \o learning_style

\* StudyPlanningAgent.create_study_plan.  len(subjects) raises on None inside the
\* try, and the except clause raises again at ', '.join(subjects): that one
\* leaves the method.
CreateStudyPlanOp(subjects, available_hours, deadline, learning_style, now) ==
    IF subjects.type = "NoneType"
    THEN Raise("can only join an iterable", <<>>)
    ELSE Return([study_plan     |-> StudyPlanText(subjects, available_hours,
                                                  deadline, learning_style),
                 subjects       |-> subjects,
                 weekly_hours   |-> available_hours,
                 duration       |-> deadline,
                 learning_style |-> learning_style,
                 processed_at   |-> IsoFormat(now),
                 demo_mode      |-> TRUE], <<>>)

\* AgentEvaluator.evaluate_response_quality: the scoring of the text is left out
EvaluateResponseQuality(agent_name, now) ==
    [agent |-> agent_name, evaluated_at |-> IsoFormat(now)]

\* OpenAPIClient.weather_lookup
WeatherLookup(city) ==
    [success |-> TRUE,
     data    |-> [city |-> city, recommendation |-> "Great day for outdoor study sessions!"]]

\* result[key] = value
WithItem(dict, key, value) == (key :> value) @@ dict

\* ShareEmotionalInsights addressing the envelope the other way round
ShareEmotionalInsights_Reversed(bus, emotional_result, now1, now2) ==
    SendMessageOp(bus, A2AMessage("DATA_SHARING", "study", "emotional",
                                  [purpose |-> "personalize_study_plan"],
                                  PyNoneStr, now1, now2))

\* _share_emotional_insights: the bus after the call.  send_message has its own
\* except clause, so nothing reaches the one here.
ShareEmotionalInsights(bus, emotional_result, now1, now2) ==
    LET content ==
            [data    |-> PyDict([emotional_state |-> Get(emotional_result,
                                                         "primary_emotion", PyNoneStr),
                                 mood_score      |-> Get(emotional_result,
                                                         "mood_score", 0),
                                 insight_preview |->
                                     Truncate(Get(emotional_result,
                                                  "emotional_insight", ""),
                                              PreviewLen) \o "..."]),
             purpose |-> "personalize_study_plan"]
        message == A2AMessage("DATA_SHARING", "emotional", "study", content,
                              PyNoneStr, now1, now2)
    IN  SendMessageOp(bus, message)

\* BroadcastStudyPlanCreated leaving out the recipients after the first
BroadcastStudyPlanCreated_FirstOnly(bus, study_result, readings) ==
    BroadcastLoop_StopsEarly(1, [bus |-> bus, results |-> <<>>, invoked |-> <<>>,
                                 envelopes |-> <<>>],
                             "study", "COORDINATION", [event |-> "study_plan_created"],
                             SubSeq(readings, 2, Len(readings)))

\* _broadcast_study_plan_created: readings[1] is the timestamp of the payload
BroadcastStudyPlanCreated(bus, study_result, readings) ==
    LET content ==
            [event          |-> "study_plan_created",
             subjects_count |-> Len(Get(study_result, "subjects", PyList(<<>>)).value),
             weekly_hours   |-> Get(study_result, "weekly_hours", 0),
             timestamp      |-> IsoFormat(readings[1])]
    IN  BroadcastMessageOp(bus, "study", "COORDINATION", content,
                           SubSeq(readings, 2, Len(readings)))

\* process_request up to the return of the agent method (lines 195-215 and
\* 234-242): a value returned at once, an exception, or the agent's result with
\* the memory bank the call left.  readings are the clock readings of the agent.
RouteRequest(registry, bank, agent_type, request_data, readings) ==
    IF ~ IsRegistered(registry, agent_type)
    THEN [kind  |-> "returned",
          value |-> [error            |-> "Unknown agent type: " \o agent_type,
                     available_agents |-> [i \in DOMAIN registry |-> registry[i].name]]]
    ELSE IF agent_type = "emotional"
    THEN IF request_data.type # "dict"
         THEN [kind |-> "raised", exception |-> NotIterable]
         ELSE IF "journal_entry" \in DOMAIN request_data.value
         THEN LET done == ProcessEmotionalJournalOp(
                              bank, request_data.value["journal_entry"],
                              Get(request_data.value, "emotion_tags", PyNone),
                              Get(request_data.value, "user_id", "default"), readings)
              IN  [kind |-> "called", result |-> done.value, memories |-> done.memories,
                   appended |-> done.appended, clock |-> done.clock]
         ELSE [kind |-> "returned", value |-> [error |-> "Journal entry required"]]
    ELSE IF agent_type = "study"
    THEN IF request_data.type # "dict"
         THEN [kind |-> "raised", exception |-> NotIterable]
         ELSE IF "subjects" \in DOMAIN request_data.value
         THEN LET done == CreateStudyPlanOp(
                              request_data.value["subjects"],
                              Get(request_data.value, "available_hours", 10),
                              Get(request_data.value, "deadline", "4 weeks"),
                              Get(request_data.value, "learning_style", "visual"),
                              readings[1])
              IN  IF done.raised
                  THEN [kind |-> "raised", exception |-> done.value.exception]
                  ELSE [kind |-> "called", result |-> done.value, memories |-> bank,
                        appended |-> FALSE, clock |-> readings[1]]
         ELSE [kind |-> "returned", value |-> [error |-> "Subjects required"]]
    ELSE [kind  |-> "returned",
          value |-> [error |-> "Agent " \o agent_type \o " not fully implemented"]]

\* the except clause of process_request (lines 260-266) leaving the exception alone
RequestFailed_Propagates(agent_type, exception, now) ==
    [raised |-> TRUE, value |-> [exception |-> exception]]

\* the except clause of process_request, lines 260-266
RequestFailed(agent_type, exception, now) ==
    [raised |-> FALSE,
     value  |-> [error      |-> "Request processing failed: " \o exception,
                 agent_type |-> agent_type,
                 timestamp  |-> IsoFormat(now)]]

\* the envelopes a request puts on the bus once its agent has returned
EnvelopesOf(agent_type) ==
    IF agent_type = "emotional" THEN 1
    ELSE IF agent_type = "study" THEN Cardinality(Recipients(agent_registry, "study"))
    ELSE 0

\* process_request, from the call to the return of the agent method
ProcessRequestCall(agent_type, request_data, readings) ==
    LET routed == RouteRequest(agent_registry, memories, agent_type, request_data,
                               readings)
        call   == [agent_type |-> agent_type, request_data |-> request_data]
    IN  /\ in_flight = <<>>
        /\ Len(message_queue) + EnvelopesOf(agent_type) <= MaxEnvelopes
        /\ calls' = <<>>
        /\ CASE routed.kind = "returned" ->
                  /\ returned' = [op |-> "process_request", call |-> call,
                                  raised |-> FALSE, value |-> routed.value]
                  /\ UNCHANGED <<clock, memories, stored, in_flight>>
             [] routed.kind = "raised" ->
                  LET failed == RequestFailed(agent_type, routed.exception, readings[1])
                  IN  /\ returned' = [op |-> "process_request", call |-> call,
                                      raised |-> failed.raised, value |-> failed.value]
                      /\ clock' = readings[1]
                      /\ UNCHANGED <<memories, stored, in_flight>>
             [] routed.kind = "called" ->
                  /\ in_flight' = << [op |-> "process_request", call |-> call,
                                      result |-> routed.result] >>
                  /\ memories' = routed.memories
                  /\ stored' = IF routed.appended
                               THEN LET user_id == routed.result.user_id
                                        history == routed.memories[user_id]
                                    IN  Log(stored, user_id, history[Len(history)])
                               ELSE stored
                  /\ clock' = routed.clock
                  /\ UNCHANGED returned
        /\ UNCHANGED <<agent_registry, conversation_history, message_queue, roundtrip>>
        /\ UNCHANGED <<detached, executorVars, operationVars>>

\* process_request, lines 217-229: the insight is shared when the result has one,
\* the evaluation is added and the result returned
EmotionalReturn(readings) ==
    LET call   == in_flight[1].call
        output == in_flight[1].result
        shares == "emotional_insight" \in DOMAIN output
        sent   == ShareEmotionalInsights(Bus, output, readings[1], readings[2])
        now    == IF shares THEN readings[3] ELSE readings[1]
    IN  /\ in_flight # <<>>
        /\ call.agent_type = "emotional"
        /\ conversation_history' = IF shares THEN sent.bus.conversation_history
                                   ELSE conversation_history
        /\ message_queue' = IF shares THEN sent.bus.message_queue ELSE message_queue
        /\ calls' = IF shares THEN sent.outcome.invoked ELSE <<>>
        /\ clock' = now
        /\ returned' = [op |-> "process_request", call |-> call, raised |-> FALSE,
                        value |-> WithItem(output, "evaluation",
                                     EvaluateResponseQuality("emotional_support", now))]
        /\ in_flight' = <<>>
        /\ UNCHANGED <<agent_registry, roundtrip, memoryVars, executorVars, operationVars>>

\* process_request, lines 244-252: the broadcast, the weather lookup, the return
StudyReturn(readings) ==
    LET call    == in_flight[1].call
        output  == in_flight[1].result
        done    == BroadcastStudyPlanCreated(Bus, output, readings)
        weather == WeatherLookup("current_city")
    IN  /\ in_flight # <<>>
        /\ call.agent_type = "study"
        /\ conversation_history' = done.bus.conversation_history
        /\ message_queue' = done.bus.message_queue
        /\ calls' = done.invoked
        /\ clock' = readings[Len(readings)]
        /\ returned' = [op |-> "process_request", call |-> call, raised |-> FALSE,
                        value |-> IF "data" \in DOMAIN weather
                                  THEN WithItem(output, "weather_recommendation",
                                                weather.data.recommendation)
                                  ELSE output]
        /\ in_flight' = <<>>
        /\ UNCHANGED <<agent_registry, roundtrip, memoryVars, executorVars, operationVars>>

\* the requests made of the system
JournalText == "stressed about exams"

Requests ==
    { <<"emotional", PyDict([journal_entry |-> JournalText])>>,
      <<"emotional", PyDict([journal_entry |-> JournalText,
                             emotion_tags  |-> PyList(<<"stressed", "anxious">>),
                             user_id       |-> "parallel_user"])>>,
      <<"emotional", PyDict([journal_entry |-> PyNoneStr])>>,
      <<"emotional", PyDict([emotion_tags |-> PyList(<<"stressed">>)])>>,
      <<"emotional", PyNone>>,
      <<"study", PyDict([subjects |-> PyList(<<"math", "physics">>)])>>,
      <<"study", PyDict([subjects |-> PyList(<<"math">>), available_hours |-> 6,
                         deadline |-> "2 weeks"])>>,
      <<"study", PyDict([subjects |-> PyNone])>>,
      <<"study", PyDict([deadline |-> "2 weeks"])>>,
      <<"community", PyDict([location |-> "city"])>>,
      <<"weather", PyDict(<<>>)>> }

NextSystem ==
    \/ \E request \in Requests, readings \in ReadingSequences(clock, 3) :
           ProcessRequestCall(request[1], request[2], readings)
    \/ \E readings \in ReadingSequences(clock, 3) : EmotionalReturn(readings)
    \/ \E readings \in ReadingSequences(clock,
                           1 + 2 * Cardinality(Recipients(agent_registry, "study"))) :
           StudyReturn(readings)

SpecSystem == InitSystem /\ [][NextSystem]_vars

----------------------------------------------------------------------------
(* Claims about the orchestrator *)

\* the call names an agent the orchestrator has not registered
UnknownAgent(call) == ~ IsRegistered(agent_registry, call.agent_type)

\* the call is for the given agent and its data is a dict with the given key
HasField(call, agent_type, key) ==
    /\ call.agent_type = agent_type
    /\ call.request_data.type = "dict"
    /\ key \in DOMAIN call.request_data.value

\* the call is for the emotional or the study agent and its data is a dict
\* without the field that agent requires
MissesField(call) ==
    /\ call.request_data.type = "dict"
    /\ \/ call.agent_type = "emotional" /\ ~ HasField(call, "emotional", "journal_entry")
       \/ call.agent_type = "study" /\ ~ HasField(call, "study", "subjects")

\* an exception is raised in the body of process_request while it serves the call
RaisesInside(call) ==
    RouteRequest(agent_registry, <<>>, call.agent_type, call.request_data,
                 <<0, 0, 0>>).kind = "raised"

\* C22: process_request never raises to its caller: an unknown agent type returns
\* an error listing the available agents, a request missing its required field
\* (journal_entry, subjects) returns an error value, and any exception raised
\* while serving the request is turned into an error result carrying the agent
\* type and a timestamp.
C22_ProcessRequestNeverRaises ==
    returned.op = "process_request" =>
        /\ ~ returned.raised
        /\ UnknownAgent(returned.call) =>
               /\ DOMAIN returned.value = {"error", "available_agents"}
               /\ returned.value.available_agents =
                      <<"emotional", "study", "community", "social">>
        /\ MissesField(returned.call) => DOMAIN returned.value = {"error"}
        /\ RaisesInside(returned.call) =>
               /\ DOMAIN returned.value = {"error", "agent_type", "timestamp"}
               /\ returned.value.agent_type = returned.call.agent_type
               /\ in_flight = <<>> => returned.value.timestamp = IsoFormat(clock)

\* create_study_plan raised on subjects of None, and the request returned an error
\* naming the study agent
C22_Witness ==
    /\ returned.op = "process_request"
    /\ HasField(returned.call, "study", "subjects")
    /\ RaisesInside(returned.call)
    /\ ~ returned.raised
    /\ returned.value.agent_type = "study"

\* the step takes a call of process_request as far as the return of the agent
\* method, or from there to its own return, or from the call to its return at once
AgentReturns == in_flight = <<>> /\ in_flight' # <<>>

RequestReturns == in_flight # <<>> /\ in_flight' = <<>>

ReturnsAtOnce ==
    /\ in_flight = <<>>
    /\ in_flight' = <<>>
    /\ returned' # returned
    /\ returned'.op = "process_request"

\* the call is an emotional request whose journal_entry is a text
HasJournal(call) ==
    /\ HasField(call, "emotional", "journal_entry")
    /\ call.request_data.value["journal_entry"] # PyNoneStr

UserOf(call) == Get(call.request_data.value, "user_id", "default")

\* C23: every process_request('emotional', data) with a journal_entry returns a
\* result containing emotional_insight, and on the way appends exactly one record
\* to the memory of the request's user (followed by the compaction check) before
\* exactly one DataSharing envelope from emotional to study is recorded on the bus.
C23_EmotionalRequestFlow ==
    [][ /\ ReturnsAtOnce => ~ HasJournal(returned'.call)
        /\ (AgentReturns /\ HasJournal(in_flight'[1].call)) =>
               LET user_id == UserOf(in_flight'[1].call)
                   before  == Get(stored, user_id, <<>>)
               IN  /\ Len(stored'[user_id]) = Len(before) + 1
                   /\ SubSeq(stored'[user_id], 1, Len(before)) = before
                   /\ \A other \in DOMAIN stored \ {user_id} :
                          stored'[other] = stored[other]
                   /\ memories'[user_id] = LastRecords(stored'[user_id], AutoCompactCap)
                   /\ \A other \in DOMAIN memories \ {user_id} :
                          memories'[other] = memories[other]
                   /\ message_queue' = message_queue
                   /\ conversation_history' = conversation_history
        /\ (RequestReturns /\ HasJournal(in_flight[1].call)) =>
               LET last == message_queue'[Len(message_queue')]
               IN  /\ memories' = memories
                   /\ stored' = stored
                   /\ message_queue' = Append(message_queue, last)
                   /\ last.message_type = "DATA_SHARING"
                   /\ last.from_agent = "emotional"
                   /\ last.to_agent = "study"
                   /\ conversation_history' =
                          ("emotional_study" :>
                               Append(Get(conversation_history, "emotional_study", <<>>),
                                      ToDict(last))) @@ conversation_history
                   /\ returned'.call = in_flight[1].call
                   /\ ~ returned'.raised
                   /\ "emotional_insight" \in DOMAIN returned'.value ]_vars

\* a second emotional request of a user has returned: two records are in that
\* user's memory and the insight went to the study agent
C23_Witness ==
    /\ returned.op = "process_request"
    /\ in_flight = <<>>
    /\ HasJournal(returned.call)
    /\ "emotional_insight" \in DOMAIN returned.value
    /\ Len(memories[UserOf(returned.call)]) = 2
    /\ message_queue[Len(message_queue)].message_type = "DATA_SHARING"
    /\ calls = <<>>

\* the call is a study request whose subjects are a list
HasSubjects(call) ==
    /\ HasField(call, "study", "subjects")
    /\ call.request_data.value["subjects"].type = "list"

\* C24: every process_request('study', data) with subjects returns a result
\* containing study_plan and broadcasts one Coordination envelope from study to
\* each of the other three registered agents (emotional, community, social), so
\* the bus send log grows by exactly three and no agent handler is run by the
\* broadcast.
C24_StudyRequestBroadcasts ==
    [][ /\ ReturnsAtOnce => ~ HasSubjects(returned'.call)
        /\ (AgentReturns /\ HasSubjects(in_flight'[1].call)) =>
               message_queue' = message_queue
        /\ (RequestReturns /\ HasSubjects(in_flight[1].call)) =>
               LET sent == Len(message_queue)
               IN  /\ returned'.call = in_flight[1].call
                   /\ ~ returned'.raised
                   /\ "study_plan" \in DOMAIN returned'.value
                   /\ Len(message_queue') = sent + 3
                   /\ SubSeq(message_queue', 1, sent) = message_queue
                   /\ \A i \in 1..3 :
                          /\ message_queue'[sent + i].message_type = "COORDINATION"
                          /\ message_queue'[sent + i].from_agent = "study"
                          /\ message_queue'[sent + i].to_agent =
                                 <<"emotional", "community", "social">>[i]
                   /\ calls' = <<>> ]_vars

\* a study request has returned its plan after an emotional request: the send log
\* holds the shared insight and the three coordination envelopes
C24_Witness ==
    /\ returned.op = "process_request"
    /\ in_flight = <<>>
    /\ HasSubjects(returned.call)
    /\ "study_plan" \in DOMAIN returned.value
    /\ Len(message_queue) = 4
    /\ message_queue[1].message_type = "DATA_SHARING"
    /\ { message_queue[i].to_agent : i \in 2..4 } = {"emotional", "community", "social"}

----------------------------------------------------------------------------
(* send_message called from several threads.  The method takes no lock, so *)
(* a thread switch can fall between any two of its statements: each thread *)
(* is at the test of line 81, the assignment of line 82, the append of     *)
(* line 83, the append of line 86 or the delivery of lines 89-97.           *)

MaxSenders == 2       \* threads that call send_message

\* the envelopes the threads send; the t-th caller names its envelope itself
ConcurrentEnvelopes ==
    { Envelope("DATA_SHARING", "emotional", "study", SharedData),
      Envelope("COORDINATION", "study", "emotional", EmptyContent) }

CallerMessageId(t) == "msg_" \o ToString(t)

\* the position of thread t moves on
Goes(t, position) == in_flight' = [in_flight EXCEPT ![t].at = position]

KeyOf(t) == ConvKey(in_flight[t].message.from_agent, in_flight[t].message.to_agent)

\* a thread constructs its envelope and enters send_message
SendEnter(e, now) ==
    /\ Len(in_flight) < MaxSenders
    /\ in_flight' = Append(in_flight,
                           [op      |-> "send_message",
                            message |-> A2AMessage(e.message_type, e.from_agent,
                                                   e.to_agent, e.content,
                                                   CallerMessageId(Len(in_flight) + 1),
                                                   now, now),
                            at      |-> "test"])
    /\ clock' = now
    /\ UNCHANGED <<returned, busVars, memoryVars, executorVars, operationVars>>

\* line 81: if conv_key not in self.conversation_history
SendTestKey(t) ==
    /\ in_flight[t].at = "test"
    /\ Goes(t, IF KeyOf(t) \in DOMAIN conversation_history THEN "append" ELSE "create")
    /\ UNCHANGED <<clock, returned, busVars, memoryVars, executorVars, operationVars>>

\* line 82: self.conversation_history[conv_key] = []
SendCreateList(t) ==
    /\ in_flight[t].at = "create"
    /\ conversation_history' = (KeyOf(t) :> <<>>) @@ conversation_history
    /\ Goes(t, "append")
    /\ UNCHANGED <<clock, returned, agent_registry, message_queue, calls, roundtrip>>
    /\ UNCHANGED <<memoryVars, executorVars, operationVars>>

\* line 83: self.conversation_history[conv_key].append(message.to_dict())
SendAppendHistory(t) ==
    /\ in_flight[t].at = "append"
    /\ conversation_history' =
           [conversation_history EXCEPT
               ![KeyOf(t)] = Append(@, ToDict(in_flight[t].message))]
    /\ Goes(t, "log")
    /\ UNCHANGED <<clock, returned, agent_registry, message_queue, calls, roundtrip>>
    /\ UNCHANGED <<memoryVars, executorVars, operationVars>>

\* line 86: self.message_queue.append(message)
SendAppendQueue(t) ==
    /\ in_flight[t].at = "log"
    /\ message_queue' = Append(message_queue, in_flight[t].message)
    /\ Goes(t, "deliver")
    /\ UNCHANGED <<clock, returned, agent_registry, conversation_history, calls,
                   roundtrip>>
    /\ UNCHANGED <<memoryVars, executorVars, operationVars>>

\* lines 89-97: the delivery, or the queued answer, and the return
SendReturn(t) ==
    LET message == in_flight[t].message
        inner   == IF IsRegistered(agent_registry, message.to_agent)
                   THEN DeliverMessage(message, Bus)
                   ELSE Return([status     |-> "queued",
                                message_id |-> message.message_id,
                                reason     |-> "agent_not_registered"], <<>>)
    IN  /\ in_flight[t].at = "deliver"
        /\ calls' = inner.invoked
        /\ returned' = [op |-> "send_message", message |-> message,
                        raised |-> FALSE, value |-> inner.value]
        /\ Goes(t, "done")
        /\ UNCHANGED <<clock, agent_registry, conversation_history, message_queue,
                       roundtrip>>
        /\ UNCHANGED <<memoryVars, executorVars, operationVars>>

NextSenders ==
    \/ \E e \in ConcurrentEnvelopes, now \in Readings(clock) : SendEnter(e, now)
    \/ \E t \in DOMAIN in_flight :
           \/ SendTestKey(t)
           \/ SendCreateList(t)
           \/ SendAppendHistory(t)
           \/ SendAppendQueue(t)
           \/ SendReturn(t)

SpecSenders == InitSystem /\ [][NextSenders]_vars

\* every call of send_message made so far has returned
AllReturned == \A t \in DOMAIN in_flight : in_flight[t].at = "done"

\* the envelope of thread t is in the conversation history of its pair
InHistory(t) ==
    /\ KeyOf(t) \in DOMAIN conversation_history
    /\ \E i \in DOMAIN conversation_history[KeyOf(t)] :
           conversation_history[KeyOf(t)][i] = ToDict(in_flight[t].message)

\* C27: when two threads call send_message concurrently for the same (from, to)
\* pair, both envelopes are in that pair's conversation history once both calls
\* have returned: no interleaving of the check-create-append steps loses an
\* envelope.
C27_ConcurrentSendsKeepEnvelopes ==
    AllReturned => \A t \in DOMAIN in_flight : InHistory(t)

----------------------------------------------------------------------------
(* store_emotional_pattern and compact_memory called from several threads. *)
(* Neither takes a lock.  A thread holds a reference to a list object: the *)
(* list memories holds for its user now, or one that memories held when    *)
(* the thread loaded it and that an assignment has replaced since.          *)

MaxBankThreads == 2   \* threads that call into the memory bank

\* the max_entries arguments of the compacting threads
BankCaps == {1, 2}

LiveRef == [live |-> TRUE, id |-> 0]

NoRef == [live |-> FALSE, id |-> 0]

\* the list a reference of thread t stands for
ItemsOf(t, ref) ==
    IF ref.live THEN memories[in_flight[t].user_id] ELSE detached[ref.id]

\* the list that thread t loaded, and the one a compacting thread made by slicing
Items(t) == ItemsOf(t, in_flight[t].ref)

Compacted(t) == ItemsOf(t, in_flight[t].made)

\* self.memories[user_id] = list: the threads that referred to the list replaced
\* go on referring to it
Assign(user_id, list) ==
    LET refers(k) == /\ in_flight[k].user_id = user_id
                     /\ LiveRef \in {in_flight[k].ref, in_flight[k].made}
        held      == user_id \in DOMAIN memories /\ \E k \in DOMAIN in_flight : refers(k)
        moved(r)  == IF r = LiveRef THEN [live |-> FALSE, id |-> Len(detached) + 1]
                     ELSE r
    IN  [memories  |-> (user_id :> list) @@ memories,
         detached  |-> IF held THEN Append(detached, memories[user_id]) ELSE detached,
         in_flight |-> [k \in DOMAIN in_flight |->
                           IF held /\ refers(k)
                           THEN [in_flight[k] EXCEPT !.ref  = moved(@),
                                                     !.made = moved(@)]
                           ELSE in_flight[k]]]

\* a thread enters store_emotional_pattern(user_id, emotion_data) or
\* compact_memory(user_id, max_entries)
BankEnter(op, user_id, arg) ==
    /\ Len(in_flight) < MaxBankThreads
    /\ in_flight' = Append(in_flight, [op |-> op, user_id |-> user_id, arg |-> arg,
                                       at |-> "test", ref |-> NoRef, made |-> NoRef,
                                       local |-> <<>>])
    /\ UNCHANGED <<clock, returned, busVars, memoryVars, executorVars, operationVars>>

\* the data the t-th caller stores
EntryOf(t) == [journal_entry |-> "entry " \o ToString(t)]

\* thread t is in the given method at the given position
At(t, op, position) == in_flight[t].op = op /\ in_flight[t].at = position

\* line 169: if user_id not in self.memories
StoreTest(t) ==
    /\ At(t, "store", "test")
    /\ Goes(t, IF in_flight[t].user_id \in DOMAIN memories THEN "load" ELSE "create")
    /\ UNCHANGED <<clock, returned, busVars, memoryVars, executorVars, operationVars>>

\* line 170: self.memories[user_id] = []
StoreCreate(t) ==
    LET assigned == Assign(in_flight[t].user_id, <<>>)
    IN  /\ At(t, "store", "create")
        /\ memories' = assigned.memories
        /\ detached' = assigned.detached
        /\ in_flight' = [assigned.in_flight EXCEPT ![t].at = "load"]
        /\ UNCHANGED <<clock, returned, stored, busVars, executorVars, operationVars>>

\* line 172: self.memories[user_id] is evaluated, and its append looked up
StoreLoad(t) ==
    /\ At(t, "store", "load")
    /\ in_flight' = [in_flight EXCEPT ![t].ref = LiveRef, ![t].at = "build"]
    /\ UNCHANGED <<clock, returned, busVars, memoryVars, executorVars, operationVars>>

\* lines 172-176: the record is built; its pattern_id is taken from the length
\* of the list that memories holds by now
StoreBuild(t, now) ==
    /\ At(t, "store", "build")
    /\ in_flight' =
           [in_flight EXCEPT
               ![t].local = [data       |-> in_flight[t].arg,
                             timestamp  |-> IsoFormat(now),
                             pattern_id |-> PatternId(
                                 Len(memories[in_flight[t].user_id]) + 1)],
               ![t].at = "append"]
    /\ clock' = now
    /\ UNCHANGED <<returned, busVars, memoryVars, executorVars, operationVars>>

\* line 172: the append, on the list that was loaded
StoreAppend(t) ==
    LET user_id == in_flight[t].user_id
        record  == in_flight[t].local
    IN  /\ At(t, "store", "append")
        /\ IF in_flight[t].ref.live
           THEN /\ memories' = [memories EXCEPT ![user_id] = Append(@, record)]
                /\ UNCHANGED detached
           ELSE /\ detached' = [detached EXCEPT ![in_flight[t].ref.id] = Append(@, record)]
                /\ UNCHANGED memories
        /\ stored' = Log(stored, user_id, record)
        /\ returned' = [op |-> "store_emotional_pattern", user_id |-> user_id]
        /\ Goes(t, "done")
        /\ UNCHANGED <<clock, busVars, executorVars, operationVars>>

\* the value compact_memory returns when it does not compact
NotCompacted(t) ==
    [op |-> "compact_memory", user_id |-> in_flight[t].user_id,
     max_entries |-> in_flight[t].arg,
     value |-> [compacted |-> FALSE, reason |-> "no_compaction_needed"]]

\* line 142: if user_id in self.memory_bank.memories
CompactTest(t) ==
    /\ At(t, "compact", "test")
    /\ IF in_flight[t].user_id \in DOMAIN memories
       THEN Goes(t, "load") /\ UNCHANGED returned
       ELSE Goes(t, "done") /\ returned' = NotCompacted(t)
    /\ UNCHANGED <<clock, busVars, memoryVars, executorVars, operationVars>>

\* line 143: history = self.memory_bank.memories[user_id]
CompactLoad(t) ==
    /\ At(t, "compact", "load")
    /\ in_flight' = [in_flight EXCEPT ![t].ref = LiveRef, ![t].at = "len"]
    /\ UNCHANGED <<clock, returned, busVars, memoryVars, executorVars, operationVars>>

\* line 144: if len(history) > max_entries
CompactLen(t) ==
    /\ At(t, "compact", "len")
    /\ IF Len(Items(t)) > in_flight[t].arg
       THEN Goes(t, "slice") /\ UNCHANGED returned
       ELSE Goes(t, "done") /\ returned' = NotCompacted(t)
    /\ UNCHANGED <<clock, busVars, memoryVars, executorVars, operationVars>>

\* line 146: compacted = history[-max_entries:]
CompactSlice(t) ==
    /\ At(t, "compact", "slice")
    /\ in_flight' = [in_flight EXCEPT
                        ![t].local = SliceFrom(Items(t), 0 - in_flight[t].arg),
                        ![t].at = "assign"]
    /\ UNCHANGED <<clock, returned, busVars, memoryVars, executorVars, operationVars>>

\* line 147: self.memory_bank.memories[user_id] = compacted
CompactAssign(t) ==
    LET assigned == Assign(in_flight[t].user_id, in_flight[t].local)
    IN  /\ At(t, "compact", "assign")
        /\ memories' = assigned.memories
        /\ detached' = assigned.detached
        /\ in_flight' = [assigned.in_flight EXCEPT ![t].made = LiveRef,
                                                   ![t].at = "report"]
        /\ UNCHANGED <<clock, returned, stored, busVars, executorVars, operationVars>>

\* lines 148-156: the report, from the lengths the two lists have by now
CompactReport(t, now) ==
    /\ At(t, "compact", "report")
    /\ returned' = [op |-> "compact_memory", user_id |-> in_flight[t].user_id,
                    max_entries |-> in_flight[t].arg,
                    value |-> [compacted   |-> TRUE,
                               before      |-> Len(Items(t)),
                               after       |-> Len(Compacted(t)),
                               removed     |-> Len(Items(t)) - Len(Compacted(t)),
                               max_entries |-> in_flight[t].arg,
                               timestamp   |-> IsoFormat(now)]]
    /\ clock' = now
    /\ Goes(t, "done")
    /\ UNCHANGED <<busVars, memoryVars, executorVars, operationVars>>

NextBank ==
    \/ \E now \in Readings(clock) :
           in_flight = <<>> /\ StorePattern("default", StoredData, now)
    \/ BankEnter("store", "default", EntryOf(Len(in_flight) + 1))
    \/ \E max_entries \in BankCaps : BankEnter("compact", "default", max_entries)
    \/ \E t \in DOMAIN in_flight :
           \/ StoreTest(t)
           \/ StoreCreate(t)
           \/ StoreLoad(t)
           \/ \E now \in Readings(clock) : StoreBuild(t, now)
           \/ StoreAppend(t)
           \/ CompactTest(t)
           \/ CompactLoad(t)
           \/ CompactLen(t)
           \/ CompactSlice(t)
           \/ CompactAssign(t)
           \/ \E now \in Readings(clock) : CompactReport(t, now)

SpecBank == Init /\ [][NextBank]_vars

\* the threads in the given method
ThreadsIn(op) == { t \in DOMAIN in_flight : in_flight[t].op = op }

\* the elements of a list
Elements(list) == { list[i] : i \in DOMAIN list }

\* the number of a user's latest records that no compaction is meant to remove:
\* the smallest max_entries any thread compacts to, every record when none compacts
KeptCount(user_id) ==
    LET caps == { in_flight[t].arg : t \in ThreadsIn("compact") }
    IN  IF caps = {} THEN Len(stored[user_id])
        ELSE CHOOSE cap \in caps : \A other \in caps : cap <= other

\* C28: when store_emotional_pattern for a user runs concurrently with
\* compact_memory (or with another store) for the same user, the newly appended
\* record is in the user's history once both have returned: no interleaving
\* drops a record that compaction was not meant to remove.
C28_ConcurrentStoresKeepRecords ==
    (\A t \in DOMAIN in_flight : in_flight[t].at = "done") =>
        \A t \in ThreadsIn("store") :
            LET user_id == in_flight[t].user_id
                record  == in_flight[t].local
            IN  record \in Elements(LastRecords(stored[user_id], KeptCount(user_id)))
                    => record \in Elements(memories[user_id])

====
